---- MODULE Spec2Model ----
(***************************************************************************)
(* A model of server.js of the Music-Site repository: the credential store *)
(* and session manager, the local-network gate, the mutation API over the  *)
(* music directory tree, and the range-aware file streamer.                *)
(*                                                                         *)
(* JavaScript strings are TLA+ strings; the string functions of the source *)
(* (split, trim, startsWith, parseInt, Number, decodeURIComponent, ...)    *)
(* are operators that work character by character.  A handler is written   *)
(* as the chain of its steps: each step is an operator that receives what  *)
(* the steps before it computed.                                           *)
(***************************************************************************)
EXTENDS Integers, Sequences, FiniteSets, TLC

(***************************************************************************)
(* Bounds of the model.                                                    *)
(***************************************************************************)
\* Session tokens the process can issue in one run.
MaxTokens == 2
\* Setup requests that can be awaiting their file write at the same time.
MaxSetups == 2
\* The size in bytes of the largest file streamed.
MaxSize == 3
\* The connections to /events, and the watcher events the model delivers.
MaxConns == 2
MaxEvents == 2

(***************************************************************************)
(* JavaScript string primitives.                                           *)
(***************************************************************************)
Char(s, i) == SubSeq(s, i, i)

Digits == "0123456789"
\* The printable ASCII characters of codes 32..95 and 97..126, the first code of
\* each at index 1.  (A TLA+ string cannot hold the backquote, code 96.)
PrintableLow == " !\"#$%&'()*+,-./0123456789:;<=>?@ABCDEFGHIJKLMNOPQRSTUVWXYZ[\\]^_"
PrintableHigh == "abcdefghijklmnopqrstuvwxyz{|}~"
UpperLetters == "ABCDEFGHIJKLMNOPQRSTUVWXYZ"
LowerLetters == "abcdefghijklmnopqrstuvwxyz"

\* String.prototype.indexOf for a one-character needle, 1-based; 0 when absent.
IndexOf(s, c) ==
  LET hits == {i \in 1..Len(s) : Char(s, i) = c}
  IN IF hits = {} THEN 0 ELSE CHOOSE i \in hits : \A j \in hits : i <= j

\* String.prototype.lastIndexOf for a one-character needle, 1-based; 0 when absent.
LastIndexOf(s, c) ==
  LET hits == {i \in 1..Len(s) : Char(s, i) = c}
  IN IF hits = {} THEN 0 ELSE CHOOSE i \in hits : \A j \in hits : i >= j

Includes(s, c) == IndexOf(s, c) # 0

StartsWith(s, p) == Len(s) >= Len(p) /\ SubSeq(s, 1, Len(p)) = p

EndsWith(s, p) == Len(s) >= Len(p) /\ SubSeq(s, Len(s) - Len(p) + 1, Len(s)) = p

\* String.prototype.split for a one-character separator: a sequence of strings.
RECURSIVE Split(_, _)
Split(s, c) ==
  LET i == IndexOf(s, c)
  IN IF i = 0 THEN <<s>>
     ELSE <<SubSeq(s, 1, i - 1)>> \o Split(SubSeq(s, i + 1, Len(s)), c)

\* Array.prototype.join.
RECURSIVE Join(_, _)
Join(parts, c) ==
  IF Len(parts) = 0 THEN ""
  ELSE IF Len(parts) = 1 THEN parts[1]
  ELSE parts[1] \o c \o Join(Tail(parts), c)

\* String.prototype.trim (of spaces).
RECURSIVE TrimStart(_)
TrimStart(s) ==
  IF Len(s) > 0 /\ Char(s, 1) = " " THEN TrimStart(SubSeq(s, 2, Len(s))) ELSE s

RECURSIVE TrimEnd(_)
TrimEnd(s) ==
  IF Len(s) > 0 /\ Char(s, Len(s)) = " " THEN TrimEnd(SubSeq(s, 1, Len(s) - 1)) ELSE s

Trim(s) == TrimEnd(TrimStart(s))

\* String.prototype.toLowerCase on ASCII.
RECURSIVE ToLowerCase(_)
ToLowerCase(s) ==
  IF Len(s) = 0 THEN ""
  ELSE LET c == Char(s, 1)
           u == IndexOf(UpperLetters, c)
       IN (IF u = 0 THEN c ELSE Char(LowerLetters, u)) \o ToLowerCase(SubSeq(s, 2, Len(s)))

\* A JavaScript number is a one-element tuple holding its value; NaN, the result
\* of a failed numeric conversion, is the empty tuple.
NaN == <<>>
Num(n) == <<n>>
Val(x) == x[1]

\* The length of the longest prefix of s made of decimal digits.
RECURSIVE DigitPrefixLen(_)
DigitPrefixLen(s) ==
  IF Len(s) > 0 /\ Includes(Digits, Char(s, 1))
    THEN 1 + DigitPrefixLen(SubSeq(s, 2, Len(s)))
    ELSE 0

\* The value of a string of decimal digits.
RECURSIVE DecimalValue(_)
DecimalValue(s) ==
  IF Len(s) = 0 THEN 0
  ELSE 10 * DecimalValue(SubSeq(s, 1, Len(s) - 1)) + (IndexOf(Digits, Char(s, Len(s))) - 1)

\* String(n) for an integer n: the template literals of the source format
\* numbers this way.
RECURSIVE NumberToString(_)
NumberToString(n) ==
  IF n < 0 THEN "-" \o NumberToString(0 - n)
  ELSE IF n < 10 THEN Char(Digits, n + 1)
  ELSE NumberToString(n \div 10) \o Char(Digits, (n % 10) + 1)

\* Number(s) on the strings the model feeds it: whitespace is trimmed, the empty
\* string is 0, an optionally signed string of decimal digits is its value, and
\* any other string is NaN.  (Hexadecimal, exponent and Infinity literals are
\* outside the inputs of the model.)
Number(s) ==
  LET Negated(x) == IF x = NaN THEN NaN ELSE Num(0 - Val(x))
      Unsigned(body) ==
        IF Len(body) = 0 \/ DigitPrefixLen(body) # Len(body) THEN NaN
        ELSE Num(DecimalValue(body))
      Trimmed(t) ==
        IF Len(t) = 0 THEN Num(0)
        ELSE IF Char(t, 1) = "-" THEN Negated(Unsigned(SubSeq(t, 2, Len(t))))
        ELSE IF Char(t, 1) = "+" THEN Unsigned(SubSeq(t, 2, Len(t)))
        ELSE Unsigned(t)
  IN Trimmed(Trim(s))

\* parseInt(s, 10): leading whitespace and a sign are skipped, then the longest
\* prefix of decimal digits is read; NaN when there is no digit.
parseInt(s) ==
  LET Negated(x) == IF x = NaN THEN NaN ELSE Num(0 - Val(x))
      Prefix(body, n) == IF n = 0 THEN NaN ELSE Num(DecimalValue(SubSeq(body, 1, n)))
      Unsigned(body) == Prefix(body, DigitPrefixLen(body))
      Trimmed(t) ==
        IF Len(t) > 0 /\ Char(t, 1) = "-" THEN Negated(Unsigned(SubSeq(t, 2, Len(t))))
        ELSE IF Len(t) > 0 /\ Char(t, 1) = "+" THEN Unsigned(SubSeq(t, 2, Len(t)))
        ELSE Unsigned(t)
  IN Trimmed(TrimStart(s))

\* The exception decodeURIComponent raises on a malformed escape, as a value no
\* string of the model equals.
URIError == "<URIError>"

\* decodeURIComponent: "%" followed by two hexadecimal digits decodes to the
\* character of that code; "%" followed by anything else raises URIError, and
\* so does the code of a lone non-ASCII byte.  (Well-formed multi-byte
\* sequences, control characters and the backquote are outside the inputs of
\* the model.)
RECURSIVE decodeURIComponent(_)
decodeURIComponent(s) ==
  LET HexIndex(upper, lower) ==
        IF upper # 0 THEN upper - 1 ELSE IF lower # 0 THEN lower - 1 ELSE 0 - 1
      HexValue(c) == HexIndex(IndexOf("0123456789ABCDEF", c), IndexOf("0123456789abcdef", c))
      AsciiChar(code) ==
        IF code < 32 \/ code > 126 \/ code = 96 THEN URIError
        ELSE IF code < 96 THEN Char(PrintableLow, code - 31)
        ELSE Char(PrintableHigh, code - 96)
      Prepend(c, rest) == IF c = URIError \/ rest = URIError THEN URIError ELSE c \o rest
      Escape(high, low, rest) ==
        IF high < 0 \/ low < 0 THEN URIError ELSE Prepend(AsciiChar(16 * high + low), rest)
  IN IF Len(s) = 0 THEN ""
     ELSE IF Char(s, 1) # "%"
       THEN Prepend(Char(s, 1), decodeURIComponent(SubSeq(s, 2, Len(s))))
     ELSE IF Len(s) < 3 THEN URIError
     ELSE Escape(HexValue(Char(s, 2)), HexValue(Char(s, 3)),
                 decodeURIComponent(SubSeq(s, 4, Len(s))))

(***************************************************************************)
(* Cookies (server.js 41-60).                                              *)
(***************************************************************************)
\* The values crypto.randomBytes(24).toString("base64url") can return.
Tokens == {"t" \o NumberToString(i) : i \in 1..MaxTokens}

SESSION_COOKIE == "music_auth"

\* The value a missing property or a missing header reads as, as a value no
\* string of the model equals.
Undefined == "<undefined>"

\* The reduce of parseCookies over the pairs of the header, the accumulator a
\* function from cookie names to decoded values.  Each pair is trimmed and
\* split at "=", the name first and the rest joined again by "=".  A later pair
\* of the same name replaces an earlier one; a pair without a name is skipped;
\* the first escape that does not decode raises URIError out of the whole call
\* (threw).
RECURSIVE ReducePairs(_, _)
ReducePairs(pairs, acc) ==
  LET Assign(name, value) ==
        [n \in DOMAIN acc \cup {name} |-> IF n = name THEN value ELSE acc[n]]
      Pair(name, value) ==
        IF name = "" THEN ReducePairs(Tail(pairs), acc)
        ELSE IF value = URIError THEN [threw |-> TRUE, jar |-> acc]
        ELSE ReducePairs(Tail(pairs), Assign(name, value))
      Fields(fields) == Pair(fields[1], decodeURIComponent(Join(Tail(fields), "=")))
  IN IF Len(pairs) = 0 THEN [threw |-> FALSE, jar |-> acc]
     ELSE Fields(Split(Trim(pairs[1]), "="))

parseCookies(cookieHeader) ==
  IF cookieHeader = "" THEN [threw |-> FALSE, jar |-> [n \in {} |-> ""]]
  ELSE ReducePairs(Split(cookieHeader, ";"), [n \in {} |-> ""])

\* parseCookies(header || "")[SESSION_COOKIE] for a Cookie header (Undefined
\* when the request has no such header): URIError when parseCookies raised.
SessionCookieOf(header) ==
  LET Read(cookies) ==
        IF cookies.threw THEN URIError
        ELSE IF SESSION_COOKIE \in DOMAIN cookies.jar THEN cookies.jar[SESSION_COOKIE]
        ELSE Undefined
  IN Read(parseCookies(IF header = Undefined THEN "" ELSE header))

\* JavaScript truthiness of a token: undefined and "" are falsy.
Truthy(v) == v # Undefined /\ v # ""

(***************************************************************************)
(* Network origin classifier (server.js 105-131).                          *)
(***************************************************************************)
isPrivateIpv4(ip) ==
  LET Bad(n) == n = NaN \/ Val(n) < 0 \/ Val(n) > 255
      Private(parts) ==
        IF Len(parts) # 4 \/ \E i \in 1..Len(parts) : Bad(parts[i]) THEN FALSE
        ELSE IF Val(parts[1]) = 10 THEN TRUE
        ELSE IF Val(parts[1]) = 172 /\ Val(parts[2]) >= 16 /\ Val(parts[2]) <= 31 THEN TRUE
        ELSE Val(parts[1]) = 192 /\ Val(parts[2]) = 168
      Each(raw) == [i \in 1..Len(raw) |-> Number(raw[i])]
  IN Private(Each(Split(ip, ".")))

isLocalNetworkIp(ip) ==
  LET Local(normalized) ==
        IF normalized = "::1" \/ normalized = "127.0.0.1" THEN TRUE
        ELSE IF Includes(normalized, ":")
          THEN StartsWith(normalized, "fc") \/ StartsWith(normalized, "fd")
        ELSE isPrivateIpv4(normalized)
  IN IF ip = Undefined \/ ip = "" THEN FALSE
     ELSE Local(IF StartsWith(ip, "::ffff:") THEN SubSeq(ip, 8, Len(ip)) ELSE ip)

(***************************************************************************)
(* The requests of the model.                                              *)
(***************************************************************************)
\* Socket addresses and X-Forwarded-For chains: a loopback client, a LAN client
\* seen through an IPv4-mapped address, a public client, and public and LAN
\* clients behind a reverse proxy.
Origins ==
  { [ip |-> "127.0.0.1", forwarded |-> <<>>],
    [ip |-> "::ffff:192.168.1.7", forwarded |-> <<>>],
    [ip |-> "203.0.113.9", forwarded |-> <<>>],
    [ip |-> "127.0.0.1", forwarded |-> <<"203.0.113.9">>],
    [ip |-> "203.0.113.9", forwarded |-> <<"172.16.4.4", "203.0.113.9">>] }

\* Origins the classifier is probed with.  Socket addresses are addresses, or
\* undefined once the socket is gone: addresses at the edges of the private
\* ranges and next to them, loopback and unique-local IPv6 addresses, and
\* IPv4-mapped ones.  The entries of X-Forwarded-For are whatever the sender
\* wrote: the same addresses, and strings that are no address.
ProbeOrigins ==
  LET Addresses ==
        {"10.0.0.1", "10.255.255.255", "172.16.0.1", "172.31.255.255", "192.168.0.1",
         "127.0.0.1", "::1", "::ffff:127.0.0.1", "::ffff:10.1.2.3", "fc00::1", "fd12:3456::1",
         "9.255.255.255", "11.0.0.0", "172.15.0.1", "172.32.0.1", "192.167.1.1", "192.169.1.1",
         "8.8.8.8", "127.0.0.2", "2001:db8::1", "fe80::1", "::ffff:8.8.8.8", "::", "fc::1"}
      Strings ==
        {"", "10.0.0", "10.0.0.1.5", "10..0.1", "192.168.1.", "10.0.0.x", "10.0.0.256",
         "abc", "fc", "fcxx::1"}
  IN {[ip |-> a, forwarded |-> <<>>] : a \in Addresses \cup {Undefined}}
       \cup {[ip |-> "8.8.8.8", forwarded |-> <<a>>] : a \in Addresses \cup Strings}
       \cup {[ip |-> "8.8.8.8", forwarded |-> f] :
               f \in {<<"8.8.8.8", "10.0.0.1">>, <<"192.168.1.", "9.9.9.9">>, <<>>}}

\* Cookie headers: none, an empty session cookie, another cookie only, each
\* token alone, a token among other cookies, a token written with an escape,
\* and headers holding an escape that does not decode.
CookieHeaders ==
  {Undefined, "music_auth=", "theme=dark", "music_auth=%", "theme=50%; music_auth=t1",
   "theme=dark; music_auth=t%31"}
    \cup {"music_auth=" \o t : t \in Tokens}

\* A body property: its typeof and its value.
Str(v) == [typeof |-> "string", value |-> v]
Missing == [typeof |-> "undefined", value |-> Undefined]

\* typeof v === "string" ? v : ""
StringOrEmpty(v) == IF v.typeof = "string" THEN v.value ELSE ""

\* req.body.password: strings of several lengths, and values that are not
\* strings (a number, a missing property).
BodyPasswords ==
  {Str(p) : p \in {"", "short", "1234567", "correct horse", "hunter2hunter2"}}
    \cup {[typeof |-> "number", value |-> "12345678"], Missing}

\* The multipart body of an upload has a file part "demo", or has none.
FilePart(originalname, data) == [originalname |-> originalname, data |-> data]
NoFilePart == [originalname |-> Undefined, data |-> <<>>]

Request(origin, cookie, params, body, file) ==
  [ip |-> origin.ip, forwarded |-> origin.forwarded, cookie |-> cookie,
   params |-> params, body |-> body, file |-> file]

NoParams == [name |-> "", file |-> ""]
NoBody == [name |-> Missing, note |-> Missing, password |-> Missing]

\* Requests that matter by their cookie: status, logout.
CookieRequests ==
  {Request(o, c, NoParams, NoBody, NoFilePart) : o \in Origins, c \in CookieHeaders}

\* Requests that matter by their password: setup, login.
PasswordRequests ==
  {Request(o, Undefined, NoParams, [NoBody EXCEPT !.password = pw], NoFilePart) :
     o \in Origins, pw \in BodyPasswords}

\* The session cookie of every header and the classification of every address
\* of the model, computed once.
AuthTokenOf == [h \in CookieHeaders |-> SessionCookieOf(h)]

IsLocal ==
  [ip \in UNION {{o.ip} \cup {o.forwarded[i] : i \in 1..Len(o.forwarded)} :
                    o \in Origins \cup ProbeOrigins} |->
     isLocalNetworkIp(ip)]

(***************************************************************************)
(* The state of the process.                                               *)
(***************************************************************************)
VARIABLES
  TRUST_PROXY,    \* process.env.TRUST_PROXY === "1", fixed at start
  authFile,       \* the content of auth.json on disk
  authConfig,     \* the in-memory credential record, Null when unconfigured
  sessionTokens,  \* the in-memory set of valid session tokens
  setups,         \* the setup requests suspended at "await writeFile"
  issued,         \* the tokens crypto.randomBytes has produced so far
  disk,           \* the file system holding the music directory tree
  clients,        \* the responses of /events in the set "clients"
  wire,           \* the messages written to each connection to /events
  running,        \* the process is up
  watched,        \* the music directory tree as the watcher has reported it
  removal,        \* the project deletion suspended at "await fs.promises.rm"
  last            \* the step taken last: the request handled and its response

\* The connections a client can open to /events.
Connections == 1..MaxConns

authVars == <<TRUST_PROXY, authFile, authConfig, sessionTokens, setups, issued>>

pushVars == <<clients, wire, running, watched, removal>>

vars == <<TRUST_PROXY, authFile, authConfig, sessionTokens, setups, issued, disk, clients, wire,
          running, watched, removal, last>>

Null == [null |-> TRUE]

PASSWORD_MIN_LENGTH == 8
ITERATIONS == 120000
KEY_LENGTH == 64

\* crypto.randomBytes(16).toString("base64"): every call returns a salt no other
\* call returned.  Salt(k) is the salt drawn by the setup suspended in slot k,
\* Salt(0) the salt of a record written before the process started.
Salt(k) == "salt" \o NumberToString(k)

\* crypto.pbkdf2Sync as an ideal key-derivation function: two derivations agree
\* exactly when all their inputs agree.
pbkdf2Sync(password, salt, iterations, keylen, digest) ==
  <<password, salt, iterations, keylen, digest>>

createPasswordHash(password, salt) ==
  [salt |-> salt,
   hash |-> pbkdf2Sync(password, salt, ITERATIONS, KEY_LENGTH, "sha512"),
   iterations |-> ITERATIONS,
   digest |-> "sha512"]

\* A verification that accepts every password.
verifyPasswordAny(password, config) == TRUE

\* verifyPassword: the derived key is compared with the stored one by
\* timingSafeEqual, after their lengths.
verifyPassword(password, config) ==
  LET SameKey(stored, derived) ==
        IF Len(stored) # Len(derived) THEN FALSE ELSE stored = derived
  IN SameKey(config.hash,
             pbkdf2Sync(password, config.salt, config.iterations, KEY_LENGTH, config.digest))

\* The content of auth.json: no file, a file that is not a credential record,
\* or the JSON text of a record.
NoFile == [file |-> "absent"]
Garbage == [file |-> "garbage"]
JsonStringify(data) == [file |-> "json", data |-> data]

\* loadAuthConfig: the parsed object when the file holds JSON whose hash, salt,
\* iterations and digest are all truthy; null when the file is missing, is not
\* JSON, or lacks one of them.
loadAuthConfig(file) ==
  IF file.file = "json"
    THEN IF /\ file.data.hash # ""
            /\ file.data.salt # ""
            /\ file.data.iterations # 0
            /\ file.data.digest # ""
         THEN file.data ELSE Null
    ELSE Null

\* getAuthToken(req) = parseCookies(req.headers.cookie || "")[SESSION_COOKIE],
\* URIError when parseCookies raises (it has no handler for the URIError of
\* decodeURIComponent).
getAuthToken(req) == AuthTokenOf[req.cookie]

\* isAuthenticated, from the token getAuthToken returned.
isAuthenticated(token) == Truthy(token) /\ token \in sessionTokens

\* getRequestIps.  Express computes req.ip and req.ips from the socket address
\* and the X-Forwarded-For header: with "trust proxy" on, req.ips is the list
\* of forwarded addresses (empty without the header); with it off, req.ip is
\* the socket address.
getRequestIps(req) == IF TRUST_PROXY THEN req.forwarded ELSE <<req.ip>>

\* The verdict of restrictMutationsToLocal on the request:
\* requestIps.some((ip) => isLocalNetworkIp(ip)).
allowed(req) ==
  LET Some(requestIps) == \E i \in 1..Len(requestIps) : IsLocal[requestIps[i]]
  IN Some(getRequestIps(req))

(***************************************************************************)
(* Responses.  last records the step taken last: the endpoint and the      *)
(* response of the request handled, and what the request looked like when  *)
(* it arrived: whether its origin was local, whether the server was        *)
(* configured, the session token it carried and the password it sent.      *)
(***************************************************************************)
NoCookie == [cookie |-> "unchanged"]
ClearCookie == [cookie |-> "cleared"]
SetCookie(token) == [cookie |-> "set", value |-> token]

Reply(status, error, cookie) == [status |-> status, error |-> error, cookie |-> cookie]

\* The token a request carries, as far as the server can read it: None when
\* there is no readable session cookie.
None == "(none)"
Carried(token) == IF token = URIError \/ ~Truthy(token) THEN None ELSE token

Snapshot(ep, local, token, password, reply, changed) ==
  [ep |-> ep,
   local |-> local,
   configured |-> authConfig # Null,
   token |-> Carried(token),
   valid |-> Carried(token) \in sessionTokens,
   password |-> password,
   status |-> reply.status,
   error |-> reply.error,
   cookie |-> reply.cookie,
   changed |-> changed]

Quiet == [ep |-> "start", local |-> FALSE, configured |-> FALSE, token |-> None,
          valid |-> FALSE, password |-> "", status |-> 0, error |-> "",
          cookie |-> NoCookie, changed |-> FALSE]

(***************************************************************************)
(* Authentication endpoints (server.js 145-199).                           *)
(***************************************************************************)
Idle == [stage |-> "idle"]

\* A token can be drawn while the model has tokens left for it and for every
\* suspended setup.
TokensLeft ==
  Cardinality(issued) + Cardinality({k \in DOMAIN setups : setups[k] # Idle}) < MaxTokens

\* crypto.randomBytes(24).toString("base64url"): every call returns a token no
\* other call returned; the tokens are named in the order they are drawn.
NextToken == "t" \o NumberToString(Cardinality(issued) + 1)

\* GET /api/auth/status
Status(req) ==
  LET Answered(token) ==
        IF token = URIError THEN Reply(500, "URIError", NoCookie)
        ELSE Reply(200, IF isAuthenticated(token) THEN "authenticated" ELSE "anonymous",
                   NoCookie)
      Seen(local, token) ==
        /\ last' = Snapshot("status", local, token, "", Answered(token), FALSE)
        /\ UNCHANGED <<authVars, disk, pushVars>>
  IN Seen(allowed(req), getAuthToken(req))

\* The two checks of POST /api/auth/setup in the other order.
SetupCheckLengthFirst(password) ==
  IF Len(password) < PASSWORD_MIN_LENGTH
    THEN Reply(400, "Password must be at least 8 characters.", NoCookie)
  ELSE IF authConfig # Null THEN Reply(400, "Password already configured.", NoCookie)
  ELSE Reply(0, "pending", NoCookie)

\* POST /api/auth/setup, its two checks: the response of a refused request, or
\* "pending" when the handler goes on.
SetupCheck(password) ==
  IF authConfig # Null THEN Reply(400, "Password already configured.", NoCookie)
  ELSE IF Len(password) < PASSWORD_MIN_LENGTH
    THEN Reply(400, "Password must be at least 8 characters.", NoCookie)
  ELSE Reply(0, "pending", NoCookie)

\* POST /api/auth/setup, up to "await fs.promises.writeFile": a refused request
\* is answered; any other is suspended in slot k with the record it writes.
SetupBegin(req, k) ==
  LET Checked(local, password, reply) ==
        /\ reply.error = "pending" => TokensLeft /\ setups[k] = Idle
        /\ setups' = IF reply.error = "pending"
                       THEN [setups EXCEPT ![k] =
                               [stage |-> "writing", local |-> local, password |-> password,
                                nextConfig |-> createPasswordHash(password, Salt(k))]]
                       ELSE setups
        /\ last' = Snapshot("setup", local, Undefined, password, reply, FALSE)
        /\ UNCHANGED <<TRUST_PROXY, authFile, authConfig, sessionTokens, issued, disk, pushVars>>
      Seen(local, password) == Checked(local, password, SetupCheck(password))
  IN Seen(allowed(req), StringOrEmpty(req.body.password))

\* The file write of a suspended setup completes.
SetupWrite(k) ==
  /\ setups[k] # Idle
  /\ setups[k].stage = "writing"
  /\ authFile' = JsonStringify(setups[k].nextConfig)
  /\ setups' = [setups EXCEPT ![k].stage = "written"]
  /\ last' = Snapshot("write", setups[k].local, Undefined, setups[k].password,
                      Reply(0, "written", NoCookie), FALSE)
  /\ UNCHANGED <<TRUST_PROXY, authConfig, sessionTokens, issued, disk, pushVars>>

\* The resumption of a setup without the assignment to authConfig.
SetupFinishForgets(k, token) ==
  /\ setups[k] # Idle
  /\ setups[k].stage = "written"
  /\ token \in Tokens \ issued
  /\ sessionTokens' = sessionTokens \cup {token}
  /\ issued' = issued \cup {token}
  /\ setups' = [setups EXCEPT ![k] = Idle]
  /\ last' = Snapshot("setup", setups[k].local, Undefined, setups[k].password,
                      Reply(200, "ok", SetCookie(token)), FALSE)
  /\ UNCHANGED <<TRUST_PROXY, authFile, authConfig, disk, pushVars>>

\* POST /api/auth/setup, from the resumption after the write to the response.
SetupFinish(k, token) ==
  /\ setups[k] # Idle
  /\ setups[k].stage = "written"
  /\ token \in Tokens \ issued
  /\ authConfig' = setups[k].nextConfig
  /\ sessionTokens' = sessionTokens \cup {token}
  /\ issued' = issued \cup {token}
  /\ setups' = [setups EXCEPT ![k] = Idle]
  /\ last' = Snapshot("setup", setups[k].local, Undefined, setups[k].password,
                      Reply(200, "ok", SetCookie(token)), FALSE)
  /\ UNCHANGED <<TRUST_PROXY, authFile, disk, pushVars>>

\* The file write of a suspended setup rejects (the disk is full, auth.json
\* cannot be written).  The handler awaits the write outside any try block, so
\* the promise of the handler rejects.  What follows depends on the versions
\* installed, which the repository does not fix: Express 5 hands the rejection
\* to its error handler, which answers 500; Express 4 drops the promise, and
\* Node then ends the process on the unhandled rejection (its default since
\* version 15), and with it authConfig, sessionTokens and clients, or only
\* warns and leaves the request without a response.
SetupWriteFails(k, outcome) ==
  /\ setups[k] # Idle
  /\ setups[k].stage = "writing"
  /\ running' = (outcome # "exit")
  /\ setups' = IF outcome = "exit" THEN [j \in DOMAIN setups |-> Idle]
               ELSE [setups EXCEPT ![k] = Idle]
  /\ authConfig' = IF outcome = "exit" THEN Null ELSE authConfig
  /\ sessionTokens' = IF outcome = "exit" THEN {} ELSE sessionTokens
  /\ clients' = IF outcome = "exit" THEN {} ELSE clients
  /\ last' = Snapshot("writeFailed", setups[k].local, Undefined, setups[k].password,
                      Reply(IF outcome = "answer" THEN 500 ELSE 0, outcome, NoCookie), FALSE)
  /\ UNCHANGED <<TRUST_PROXY, authFile, issued, disk, wire, watched, removal>>

\* POST /api/auth/login
Login(req, token) ==
  LET Answered(password) ==
        IF authConfig = Null THEN Reply(400, "No password configured yet.", NoCookie)
        ELSE IF password = "" THEN Reply(400, "Password is required.", NoCookie)
        ELSE IF ~verifyPassword(password, authConfig)
          THEN Reply(401, "Incorrect password.", NoCookie)
        ELSE Reply(200, "ok", SetCookie(token))
      Applied(local, password, reply) ==
        /\ reply.status = 200 => TokensLeft /\ token \in Tokens \ issued
        /\ sessionTokens' =
             IF reply.status = 200 THEN sessionTokens \cup {token} ELSE sessionTokens
        /\ issued' = IF reply.status = 200 THEN issued \cup {token} ELSE issued
        /\ last' = Snapshot("login", local, Undefined, password, reply, FALSE)
        /\ UNCHANGED <<TRUST_PROXY, authFile, authConfig, setups, disk, pushVars>>
      Seen(local, password) == Applied(local, password, Answered(password))
  IN Seen(allowed(req), StringOrEmpty(req.body.password))

\* A logout that forgets to delete the token.
LogoutKeep(token) == sessionTokens

\* if (token) sessionTokens.delete(token)
LogoutDelete(token) ==
  IF token # URIError /\ Truthy(token) THEN sessionTokens \ {token} ELSE sessionTokens

\* POST /api/auth/logout.  A URIError raised under getAuthToken reaches Express,
\* which answers 500.
Logout(req) ==
  LET Answered(token) ==
        IF token = URIError THEN Reply(500, "URIError", NoCookie)
        ELSE Reply(200, "ok", ClearCookie)
      Seen(local, token) ==
        /\ sessionTokens' = LogoutDelete(token)
        /\ last' = Snapshot("logout", local, token, "", Answered(token), FALSE)
        /\ UNCHANGED <<TRUST_PROXY, authFile, authConfig, setups, issued, disk, pushVars>>
  IN Seen(allowed(req), getAuthToken(req))

(***************************************************************************)
(* Paths (POSIX).                                                          *)
(***************************************************************************)
APP_DIR == "/app"
MUSIC_DIR == "/app/music"
sep == "/"

\* The arguments of path.resolve joined: an absolute argument discards what came
\* before it, an empty one is skipped.
RECURSIVE Combine(_, _)
Combine(args, acc) ==
  IF Len(args) = 0 THEN acc
  ELSE IF StartsWith(args[1], sep) THEN Combine(Tail(args), args[1])
  ELSE IF args[1] = "" THEN Combine(Tail(args), acc)
  ELSE Combine(Tail(args), acc \o sep \o args[1])

\* The segments of a path walked left to right: "" and "." are dropped, ".."
\* removes the segment before it (and is dropped at the root).
RECURSIVE Walk(_, _)
Walk(segments, stack) ==
  IF Len(segments) = 0 THEN stack
  ELSE IF segments[1] = "" \/ segments[1] = "." THEN Walk(Tail(segments), stack)
  ELSE IF segments[1] = ".."
    THEN Walk(Tail(segments), IF Len(stack) = 0 THEN stack ELSE SubSeq(stack, 1, Len(stack) - 1))
  ELSE Walk(Tail(segments), Append(stack, segments[1]))

\* path.resolve(...args) with an absolute first argument: the normalized
\* absolute path, without a trailing separator.
resolve(args) == sep \o Join(Walk(Split(Combine(args, ""), sep), <<>>), sep)

\* path.dirname of a normalized absolute path.
dirname(p) ==
  LET UpTo(i) == IF i <= 1 THEN sep ELSE SubSeq(p, 1, i - 1)
  IN UpTo(LastIndexOf(p, sep))

\* A path with its trailing separators removed.
RECURSIVE StripTrailing(_)
StripTrailing(p) ==
  IF Len(p) > 0 /\ Char(p, Len(p)) = sep THEN StripTrailing(SubSeq(p, 1, Len(p) - 1)) ELSE p

\* path.basename: what follows the last separator, trailing separators ignored.
basename(p) ==
  LET AfterLast(q) == SubSeq(q, LastIndexOf(q, sep) + 1, Len(q))
  IN AfterLast(StripTrailing(p))

\* path.extname: from the last "." of the basename, "" when there is none or
\* when the basename only starts with it.
extname(p) ==
  LET FromDot(b, i) == IF i <= 1 \/ b = ".." THEN "" ELSE SubSeq(b, i, Len(b))
      Ext(b) == FromDot(b, LastIndexOf(b, "."))
  IN Ext(basename(p))

\* resolveProjectPath: the resolved path, or the Error it throws.
InvalidProjectPath == "<Error: Invalid project path>"

\* resolveProjectPath without the test of line 264.
resolveProjectPathOpen(projectName) == resolve(<<MUSIC_DIR, projectName>>)

resolveProjectPath(projectName) ==
  LET Inside(projectPath) ==
        IF ~StartsWith(projectPath, MUSIC_DIR \o sep) THEN InvalidProjectPath
        ELSE projectPath
  IN Inside(resolve(<<MUSIC_DIR, projectName>>))

\* value.replace(/[/\\]/g, "")
RECURSIVE StripSeparators(_)
StripSeparators(s) ==
  IF Len(s) = 0 THEN ""
  ELSE (IF Char(s, 1) \in {"/", "\\"} THEN "" ELSE Char(s, 1))
         \o StripSeparators(SubSeq(s, 2, Len(s)))

toSafeName(value) == StripSeparators(Trim(value))

\* value.replace(/[^a-zA-Z0-9._-]/g, "_")
RECURSIVE ReplaceUnsafe(_)
ReplaceUnsafe(s) ==
  IF Len(s) = 0 THEN ""
  ELSE (IF Includes(UpperLetters \o LowerLetters \o Digits \o "._-", Char(s, 1))
          THEN Char(s, 1) ELSE "_")
         \o ReplaceUnsafe(SubSeq(s, 2, Len(s)))

\* The file name as it was sent.
toSafeFileNameKeep(value) == value

toSafeFileName(value) == ReplaceUnsafe(basename(value))

(***************************************************************************)
(* The file system: a function from the absolute paths that exist to their *)
(* nodes.  Every operation returns the error code it fails with ("" when   *)
(* it succeeds) and the file system it leaves.                             *)
(***************************************************************************)
Dir == [type |-> "dir"]
File(data, mtime) == [type |-> "file", data |-> data, mtime |-> mtime]

Ok(d) == [err |-> "", disk |-> d]
Fail(code, d) == [err |-> code, disk |-> d]

existsSync(d, p) == p \in DOMAIN d
IsDir(d, p) == p \in DOMAIN d /\ d[p].type = "dir"
IsFile(d, p) == p \in DOMAIN d /\ d[p].type = "file"

\* A directory whose entries cannot be listed (no read permission): readdir
\* rejects with EACCES.
LockedDir == [type |-> "dir", locked |-> TRUE]

Readable(d, p) == IsDir(d, p) /\ d[p] # LockedDir

\* The paths strictly below p.
Below(d, p) == {q \in DOMAIN d : StartsWith(q, p \o sep)}

\* readdir: the entries of directory p.
Entries(d, p) == {q \in DOMAIN d : q # sep /\ dirname(q) = p}

Put(d, p, node) == [q \in DOMAIN d \cup {p} |-> IF q = p THEN node ELSE d[q]]

Without(d, gone) == [q \in DOMAIN d \ gone |-> d[q]]

\* Creating or replacing an entry needs its parent directory.
InParent(d, parent, otherwise) ==
  IF ~existsSync(d, parent) THEN Fail("ENOENT", d)
  ELSE IF ~IsDir(d, parent) THEN Fail("ENOTDIR", d)
  ELSE otherwise

\* fs.promises.mkdir(p, {recursive: false}).
mkdir(d, p) ==
  IF existsSync(d, p) THEN Fail("EEXIST", d) ELSE InParent(d, dirname(p), Ok(Put(d, p, Dir)))

\* fs.promises.mkdir(p, {recursive: true}).
RECURSIVE mkdirp(_, _)
mkdirp(d, p) ==
  LET Into(up) ==
        IF up.err = "EEXIST" THEN Fail("ENOTDIR", d)
        ELSE IF up.err # "" THEN Fail(up.err, d)
        ELSE Ok(Put(up.disk, p, Dir))
  IN IF IsDir(d, p) THEN Ok(d)
     ELSE IF existsSync(d, p) THEN Fail("EEXIST", d)
     ELSE Into(mkdirp(d, dirname(p)))

\* fs.promises.writeFile(p, data): creates or replaces the file.
writeFile(d, p, data, now) ==
  IF IsDir(d, p) THEN Fail("EISDIR", d)
  ELSE InParent(d, dirname(p), Ok(Put(d, p, File(data, now))))

\* fs.promises.rename(from, to), rename(2): the node at "from" and everything
\* below it move to "to"; a file replaces an existing file, a directory an
\* existing empty directory.
\* A rename that leaves the old name in place.
renameKeeps(d, from, to) == Ok(Put(d, to, d[from]))

rename(d, from, to) ==
  LET Rebase(q) == to \o SubSeq(q, Len(from) + 1, Len(q))
      Move(moved, kept) ==
        [q \in kept \cup {Rebase(m) : m \in moved} |->
           IF q \in kept THEN d[q] ELSE d[CHOOSE m \in moved : Rebase(m) = q]]
      Moved(moved) == Move(moved, DOMAIN d \ (moved \cup {to}))
      Replaced ==
        IF from = to THEN Ok(d)
        ELSE IF StartsWith(to, from \o sep) THEN Fail("EINVAL", d)
        ELSE IF IsDir(d, from) /\ IsFile(d, to) THEN Fail("ENOTDIR", d)
        ELSE IF IsFile(d, from) /\ IsDir(d, to) THEN Fail("EISDIR", d)
        ELSE IF IsDir(d, to) /\ Below(d, to) # {} THEN Fail("ENOTEMPTY", d)
        ELSE Ok(Moved({from} \cup Below(d, from)))
  IN IF ~existsSync(d, from) THEN Fail("ENOENT", d) ELSE InParent(d, dirname(to), Replaced)

\* fs.promises.rm(p, {recursive: true, force: true}).
rm(d, p) == Ok(Without(d, {p} \cup Below(d, p)))

\* fs.promises.unlink(p).
\* An unlink that resolves and removes nothing.
unlinkNothing(d, p) == Ok(d)

unlink(d, p) ==
  IF ~existsSync(d, p) THEN Fail("ENOENT", d)
  ELSE IF IsDir(d, p) THEN Fail("EISDIR", d)
  ELSE Ok(Without(d, {p}))

\* ensureMusicDir.
ensureMusicDir(d) == mkdirp(d, MUSIC_DIR)

\* What chokidar.watch(MUSIC_DIR, {depth: 2}) looks at: the entries below the
\* music directory, down to the third level.
Watchable(d) ==
  [q \in {e \in Below(d, MUSIC_DIR) :
            Len(Split(SubSeq(e, Len(MUSIC_DIR) + 2, Len(e)), sep)) <= 3} |-> d[q]]

\* entry.isFile() && entry.name.toLowerCase().endsWith(".wav")
\* The test of the suffix without toLowerCase.
IsWavExact(d, q) == IsFile(d, q) /\ EndsWith(basename(q), ".wav")

IsWav(d, q) == IsFile(d, q) /\ EndsWith(ToLowerCase(basename(q)), ".wav")

(***************************************************************************)
(* The two gates of the mutation API (server.js 93-103, 135-143).  Each is *)
(* given what it reads from the request: the verdict on the origin, the    *)
(* token getAuthToken returned.                                            *)
(***************************************************************************)
CallNext == [status |-> 0, error |-> "next", cookie |-> NoCookie]

\* restrictMutationsToLocal: its response, or CallNext when it calls next().
restrictMutationsToLocal(local) ==
  IF ~local THEN Reply(403, "Editing is restricted to the local network.", NoCookie)
  ELSE CallNext

\* A requireAuth that calls next() for every request.
requireAuthOpen(token) == CallNext

\* requireAuth.  A URIError raised under isAuthenticated reaches Express, which
\* answers 500.
requireAuth(token) ==
  IF authConfig = Null THEN Reply(401, "Set an editing password to continue.", NoCookie)
  ELSE IF token = URIError THEN Reply(500, "URIError", NoCookie)
  ELSE IF ~isAuthenticated(token) THEN Reply(401, "Authentication required.", NoCookie)
  ELSE CallNext

\* The middleware chain every mutating route is registered with:
\* restrictMutationsToLocal, requireAuth, then the handler.
Gate(local, token) ==
  LET Then(first, second) == IF first # CallNext THEN first ELSE second
  IN Then(restrictMutationsToLocal(local), requireAuth(token))

(***************************************************************************)
(* The handlers of the mutation API (server.js 384-566), each as the       *)
(* status and message it answers with and the file system it leaves.       *)
(***************************************************************************)
Answer(status, error, d) == [status |-> status, error |-> error, disk |-> d]

\* POST /api/projects
createProject(d, req, now) ==
  LET Written(written, projectName) ==
        IF written.err # "" THEN Answer(500, "Unable to create project.", written.disk)
        ELSE Answer(201, projectName, written.disk)
      Made(made, projectName, projectPath, note) ==
        IF made.err = "EEXIST" THEN Answer(409, "Project already exists.", made.disk)
        ELSE IF made.err # "" THEN Answer(500, "Unable to create project.", made.disk)
        ELSE Written(writeFile(made.disk, projectPath \o sep \o "project.json",
                               <<"note", note>>, now),
                     projectName)
      Resolved(ensured, projectName, projectPath, note) ==
        IF projectPath = InvalidProjectPath
          THEN Answer(500, "Unable to create project.", ensured.disk)
        ELSE Made(mkdir(ensured.disk, projectPath), projectName, projectPath, note)
      Ensured(ensured, projectName, note) ==
        IF ensured.err # "" THEN Answer(500, "Unable to create project.", ensured.disk)
        ELSE IF projectName = "" THEN Answer(400, "Project name is required.", ensured.disk)
        ELSE Resolved(ensured, projectName, resolveProjectPath(projectName), note)
  IN Ensured(ensureMusicDir(d), toSafeName(StringOrEmpty(req.body.name)),
             Trim(StringOrEmpty(req.body.note)))

\* PUT /api/projects/:name
renameProject(d, req, now) ==
  LET Renamed(renamed, nextName) ==
        IF renamed.err # "" THEN Answer(500, "Unable to rename project.", renamed.disk)
        ELSE Answer(200, nextName, renamed.disk)
      Resolved(ensured, currentPath, nextName, nextPath) ==
        IF currentPath = InvalidProjectPath \/ nextPath = InvalidProjectPath
          THEN Answer(500, "Unable to rename project.", ensured.disk)
        ELSE IF ~existsSync(ensured.disk, currentPath)
          THEN Answer(404, "Project not found.", ensured.disk)
        ELSE IF existsSync(ensured.disk, nextPath)
          THEN Answer(409, "Project already exists.", ensured.disk)
        ELSE Renamed(rename(ensured.disk, currentPath, nextPath), nextName)
      Ensured(ensured, nextName) ==
        IF ensured.err # "" THEN Answer(500, "Unable to rename project.", ensured.disk)
        ELSE IF nextName = "" THEN Answer(400, "Project name is required.", ensured.disk)
        ELSE Resolved(ensured, resolveProjectPath(req.params.name), nextName,
                      resolveProjectPath(nextName))
  IN Ensured(ensureMusicDir(d), toSafeName(StringOrEmpty(req.body.name)))

\* DELETE /api/projects/:name.  readdir raises for a path that is no directory,
\* and for a directory it may not read.
deleteProject(d, req, now) ==
  LET Removed(removed) ==
        IF removed.err # "" THEN Answer(500, "Unable to delete project.", removed.disk)
        ELSE Answer(200, "ok", removed.disk)
      Resolved(ensured, projectPath) ==
        IF projectPath = InvalidProjectPath
          THEN Answer(500, "Unable to delete project.", ensured.disk)
        ELSE IF ~existsSync(ensured.disk, projectPath)
          THEN Answer(404, "Project not found.", ensured.disk)
        ELSE IF ~Readable(ensured.disk, projectPath)
          THEN Answer(500, "Unable to delete project.", ensured.disk)
        ELSE IF \E q \in Entries(ensured.disk, projectPath) : IsWav(ensured.disk, q)
          THEN Answer(400, "Project has demo files and cannot be deleted.", ensured.disk)
        ELSE Removed(rm(ensured.disk, projectPath))
      Ensured(ensured) ==
        IF ensured.err # "" THEN Answer(500, "Unable to delete project.", ensured.disk)
        ELSE Resolved(ensured, resolveProjectPath(req.params.name))
  IN Ensured(ensureMusicDir(d))

\* POST /api/projects/:name/upload: multer's fileFilter, then the destination
\* and filename callbacks of the disk storage, then the write of the file.  A
\* request without a file part passes through multer untouched.
uploadDemo(d, req, now) ==
  LET Written(written) ==
        IF written.err # "" THEN Answer(400, written.err, written.disk)
        ELSE Answer(201, "ok", written.disk)
      Made(made, projectPath) ==
        IF made.err # "" THEN Answer(400, made.err, made.disk)
        ELSE Written(writeFile(made.disk,
                               projectPath \o sep \o toSafeFileName(req.file.originalname),
                               req.file.data, now))
      Resolved(ensured, projectPath) ==
        IF projectPath = InvalidProjectPath
          THEN Answer(400, "Invalid project path", ensured.disk)
        ELSE Made(mkdirp(ensured.disk, projectPath), projectPath)
      Ensured(ensured) ==
        IF ensured.err # "" THEN Answer(400, ensured.err, ensured.disk)
        ELSE Resolved(ensured, resolveProjectPath(req.params.name))
  IN IF req.file = NoFilePart THEN Answer(201, "ok", d)
     ELSE IF ToLowerCase(extname(req.file.originalname)) # ".wav"
       THEN Answer(400, "Only .wav files are allowed.", d)
     ELSE Ensured(ensureMusicDir(d))

\* PUT /api/projects/:name/demos/:file
renameDemo(d, req, now) ==
  LET Renamed(renamed) ==
        IF renamed.err # "" THEN Answer(500, "Unable to rename demo.", renamed.disk)
        ELSE Answer(200, "ok", renamed.disk)
      Paths(projectPath, currentPath, nextPath) ==
        IF \/ ~StartsWith(currentPath, projectPath \o sep)
           \/ ~StartsWith(nextPath, projectPath \o sep)
          THEN Answer(400, "Invalid demo file.", d)
        ELSE IF ~existsSync(d, currentPath) THEN Answer(404, "Demo file not found.", d)
        ELSE Renamed(rename(d, currentPath, nextPath))
      Resolved(projectPath, safeNextName) ==
        IF projectPath = InvalidProjectPath THEN Answer(500, "Unable to rename demo.", d)
        ELSE Paths(projectPath, resolve(<<projectPath, req.params.file>>),
                   resolve(<<projectPath, safeNextName>>))
      Named(nextName) ==
        IF nextName = "" THEN Answer(400, "Demo name is required.", d)
        ELSE Resolved(resolveProjectPath(req.params.name),
                      IF EndsWith(ToLowerCase(nextName), ".wav") THEN nextName
                      ELSE nextName \o ".wav")
  IN Named(toSafeFileName(StringOrEmpty(req.body.name)))

\* DELETE /api/projects/:name/demos/:file
deleteDemo(d, req, now) ==
  LET Unlinked(unlinked) ==
        IF unlinked.err = "ENOENT" THEN Answer(404, "Demo file not found.", unlinked.disk)
        ELSE IF unlinked.err # "" THEN Answer(500, "Unable to delete demo.", unlinked.disk)
        ELSE Answer(200, "ok", unlinked.disk)
      Paths(projectPath, filePath) ==
        IF ~StartsWith(filePath, projectPath \o sep) THEN Answer(400, "Invalid demo file.", d)
        ELSE Unlinked(unlink(d, filePath))
      Resolved(projectPath) ==
        IF projectPath = InvalidProjectPath THEN Answer(500, "Unable to delete demo.", d)
        ELSE Paths(projectPath, resolve(<<projectPath, req.params.file>>))
  IN Resolved(resolveProjectPath(req.params.name))

\* A request to a mutating route: the gates of the route, then, when both call
\* next(), its handler.  last keeps the addresses and the names of the request.
Route(ep, req, handled) ==
  LET Routed(local, token, answer) ==
        /\ disk' = answer.disk
        /\ last' = Snapshot(ep, local, token, "",
                            Reply(answer.status, answer.error, NoCookie), answer.disk # disk)
                     @@ [requestIps |-> getRequestIps(req), params |-> req.params,
                         name |-> req.body.name, file |-> req.file]
        /\ UNCHANGED <<authVars, pushVars>>
      Chain(local, token, gate) ==
        Routed(local, token,
               IF gate # CallNext THEN Answer(gate.status, gate.error, disk) ELSE handled)
      Seen(local, token) == Chain(local, token, Gate(local, token))
  IN Seen(allowed(req), getAuthToken(req))

PostProject(req, now) == Route("createProject", req, createProject(disk, req, now))
PutProject(req, now) == Route("renameProject", req, renameProject(disk, req, now))
DeleteProject(req, now) == Route("deleteProject", req, deleteProject(disk, req, now))
PostUpload(req, now) == Route("uploadDemo", req, uploadDemo(disk, req, now))
PutDemo(req, now) == Route("renameDemo", req, renameDemo(disk, req, now))
DeleteDemo(req, now) == Route("deleteDemo", req, deleteDemo(disk, req, now))

\* DELETE /api/projects/:name up to "await fs.promises.rm": a request that has
\* passed the gates, found the project and read no .wav file among its entries
\* is suspended with the path it is about to remove.  (A request that is
\* answered before is DeleteProject.)
DeleteProjectBegin(req, now) ==
  /\ removal = Idle
  /\ Gate(allowed(req), getAuthToken(req)) = CallNext
  /\ deleteProject(disk, req, now).status = 200
  /\ removal' = [stage |-> "removing", req |-> req,
                 projectPath |-> resolveProjectPath(req.params.name)]
  /\ disk' = ensureMusicDir(disk).disk
  /\ last' = Snapshot("readdir", allowed(req), getAuthToken(req), "",
                      Reply(0, "pending", NoCookie), ensureMusicDir(disk).disk # disk)
               @@ [requestIps |-> getRequestIps(req), params |-> req.params,
                   name |-> req.body.name, file |-> req.file]
  /\ UNCHANGED <<authVars, clients, wire, running, watched>>

\* The suspended deletion removes the project path with everything that is
\* below it by now, and answers.
DeleteProjectRemove ==
  /\ removal # Idle
  /\ disk' = rm(disk, removal.projectPath).disk
  /\ last' = Snapshot("deleteProject", allowed(removal.req), getAuthToken(removal.req), "",
                      Reply(200, "ok", NoCookie), rm(disk, removal.projectPath).disk # disk)
               @@ [requestIps |-> getRequestIps(removal.req), params |-> removal.req.params,
                   name |-> removal.req.body.name, file |-> removal.req.file]
  /\ removal' = Idle
  /\ UNCHANGED <<authVars, clients, wire, running, watched>>

MutatingEndpoints ==
  {"createProject", "renameProject", "deleteProject", "uploadDemo", "renameDemo", "deleteDemo"}

\* The requests sent to the mutating routes, and to the authentication endpoints
\* alongside them, come from a loopback client, a public client and a LAN
\* client behind a proxy, with no cookie, a cookie that does not decode, or a
\* token.
Clients == {o \in Origins : o.ip = "203.0.113.9" \/ (o.forwarded = <<>> /\ o.ip = "127.0.0.1")}

Sent(params, body, file) ==
  {Request(o, c, params, body, file) :
     o \in Clients,
     c \in {Undefined, "music_auth=%"} \cup {"music_auth=" \o t : t \in Tokens}}

ClientPasswordRequests ==
  {req \in PasswordRequests :
     /\ \E o \in Clients : o.ip = req.ip /\ o.forwarded = req.forwarded
     /\ req.body.password \in
          {Missing, Str("1234567"), Str("correct horse"), Str("hunter2hunter2")}}

(***************************************************************************)
(* The listings and the project page (server.js 274-382).                  *)
(***************************************************************************)
\* a.localeCompare(b) < 0 for names made of ASCII letters and digits: digits
\* sort before letters, letters alphabetically whatever their case, and of two
\* names equal but for case the one with the lowercase letter at the first
\* difference sorts first.
LocaleBefore(a, b) ==
  LET Weight(c) == IndexOf(Digits \o LowerLetters, ToLowerCase(c))
      FirstOf(hits) == CHOOSE i \in hits : \A j \in hits : i <= j
      LowerAt(i) == Includes(LowerLetters, Char(a, i))
      LighterAt(i) == Weight(Char(a, i)) < Weight(Char(b, i))
      Tertiary(hits) == IF hits = {} THEN FALSE ELSE LowerAt(FirstOf(hits))
      Primary(hits, n) ==
        IF hits # {} THEN LighterAt(FirstOf(hits))
        ELSE IF Len(a) # Len(b) THEN Len(a) < Len(b)
        ELSE Tertiary({i \in 1..n : Char(a, i) # Char(b, i)})
      Common(n) == Primary({i \in 1..n : Weight(Char(a, i)) # Weight(Char(b, i))}, n)
  IN Common(IF Len(a) < Len(b) THEN Len(a) ELSE Len(b))

\* Array.prototype.sort with a comparator that orders the items totally,
\* given as the set of the pairs it puts in order: the item at each place has
\* exactly the items that sort before it before it.
Sorted(items, before) ==
  [i \in 1..Cardinality(items) |->
     CHOOSE x \in items : Cardinality({y \in items : <<y, x>> \in before}) = i - 1]

\* Math.min in the place of Math.max.
Oldest(times) == CHOOSE t \in times : \A u \in times : t <= u

\* Math.max(...stats) of a non-empty set of modification times.
Latest(times) == CHOOSE t \in times : \A u \in times : t >= u

\* getProjects: one item for each directory among the entries of MUSIC_DIR,
\* with the latest modification time of its .wav files (0 when it has none, or
\* when it cannot be read), sorted by that time, latest first, then by name.
getProjects(d) ==
  LET Wavs(p) == {q \in Entries(d, p) : IsWav(d, q)}
      Item(p, wavs) ==
        [name |-> basename(p),
         latestDemoMs |-> IF wavs = {} THEN 0 ELSE Latest({d[q].mtime : q \in wavs}),
         hasDemos |-> wavs # {}]
      Project(p) == Item(p, IF Readable(d, p) THEN Wavs(p) ELSE {})
      Before(x, y) ==
        IF x.latestDemoMs # y.latestDemoMs THEN x.latestDemoMs > y.latestDemoMs
        ELSE LocaleBefore(x.name, y.name)
      Ordered(items) == Sorted(items, {pair \in items \X items : Before(pair[1], pair[2])})
  IN Ordered({Project(p) : p \in {q \in Entries(d, MUSIC_DIR) : IsDir(d, q)}})

\* getDemos: the error code readdir rejects with, or the .wav files of the
\* project, latest first (files of the same time in the order of their names);
\* path.join does not restart at an absolute project name as path.resolve does.
getDemos(d, projectName) ==
  LET Named(q, base, ext) ==
        [name |-> base,
         displayName |-> SubSeq(base, 1, Len(base) - Len(ext)),
         mtimeMs |-> d[q].mtime]
      Item(q) == Named(q, basename(q), extname(q))
      Before(x, y) ==
        IF x.mtimeMs # y.mtimeMs THEN x.mtimeMs > y.mtimeMs
        ELSE LocaleBefore(x.name, y.name)
      Ordered(items) == Sorted(items, {pair \in items \X items : Before(pair[1], pair[2])})
      Listed(projectPath) ==
        IF ~existsSync(d, projectPath) THEN [err |-> "ENOENT", demos |-> <<>>]
        ELSE IF ~IsDir(d, projectPath) THEN [err |-> "ENOTDIR", demos |-> <<>>]
        ELSE IF ~Readable(d, projectPath) THEN [err |-> "EACCES", demos |-> <<>>]
        ELSE [err |-> "",
              demos |-> Ordered({Item(q) : q \in {e \in Entries(d, projectPath) : IsWav(d, e)}})]
  IN Listed(sep \o Join(Walk(Split(MUSIC_DIR \o sep \o projectName, sep), <<>>), sep))

\* GET /project/:name.  The route has no gate.  An error raised in the handler
\* (by ensureMusicDir, resolveProjectPath or getDemos) goes to next, and Express
\* answers 500.
ProjectPage(req) ==
  LET Page(status, error, demos, projects, d) ==
        /\ disk' = d
        /\ last' = [ep |-> "page", name |-> req.params.name, status |-> status,
                    error |-> error, demos |-> demos, projects |-> projects,
                    changed |-> d # disk]
        /\ UNCHANGED <<authVars, pushVars>>
      Listed(d, listed) ==
        IF listed.err # "" THEN Page(500, listed.err, <<>>, <<>>, d)
        ELSE Page(200, "", listed.demos, getProjects(d), d)
      Resolved(d, projectPath) ==
        IF projectPath = InvalidProjectPath THEN Page(500, "Invalid project path", <<>>, <<>>, d)
        ELSE IF ~IsDir(d, projectPath) THEN Page(404, "Project not found", <<>>, <<>>, d)
        ELSE Listed(d, getDemos(d, req.params.name))
      Ensured(ensured) ==
        IF ensured.err # "" THEN Page(500, ensured.err, <<>>, <<>>, ensured.disk)
        ELSE Resolved(ensured.disk, resolveProjectPath(req.params.name))
  IN Ensured(ensureMusicDir(disk))

(***************************************************************************)
(* The range-aware streamer, GET /music/:project/:file (server.js          *)
(* 201-254).                                                               *)
(***************************************************************************)
\* String.prototype.replace(/bytes=/, ""): the first occurrence of the pattern
\* is removed.
RECURSIVE FindFrom(_, _, _)
FindFrom(s, pattern, i) ==
  IF i + Len(pattern) - 1 > Len(s) THEN 0
  ELSE IF SubSeq(s, i, i + Len(pattern) - 1) = pattern THEN i
  ELSE FindFrom(s, pattern, i + 1)

RemoveFirst(s, pattern) ==
  LET CutAt(i) == IF i = 0 THEN s ELSE SubSeq(s, 1, i - 1) \o SubSeq(s, i + Len(pattern), Len(s))
  IN CutAt(FindFrom(s, pattern, 1))

\* The response of the streamer: its status, the headers the handler set, the
\* text it sent, or the bytes of the file it piped.  resolvedPath is the file
\* the request named.
Sends(resolvedPath, status, contentRange, contentLength, text, bytes) ==
  [resolvedPath |-> resolvedPath, status |-> status, contentRange |-> contentRange,
   contentLength |-> contentLength, text |-> text, bytes |-> bytes]

\* next(error): Express answers 500 with its own error page, and drops the
\* Content-Range header the handler may have set.
NextError(resolvedPath, error) == Sends(resolvedPath, 500, Undefined, Undefined, error, <<>>)

\* The range branch with a createReadStream that accepts a start after the
\* end and reads nothing.
StreamSpanUnchecked(resolvedPath, data, fileSize, start, end) ==
  Sends(resolvedPath, 206,
        "bytes " \o NumberToString(start) \o "-" \o NumberToString(end)
          \o "/" \o NumberToString(fileSize),
        IF start > end THEN "-" \o NumberToString(start - end - 1)
        ELSE NumberToString(end - start + 1),
        "",
        IF start > end THEN <<>>
        ELSE SubSeq(data, start + 1, IF end < Len(data) THEN end + 1 ELSE Len(data)))

\* The range branch with the end of the range taken as excluded.
StreamSpanExclusive(resolvedPath, data, fileSize, start, end) ==
  IF start > end THEN NextError(resolvedPath, "ERR_OUT_OF_RANGE")
  ELSE Sends(resolvedPath, 206,
             "bytes " \o NumberToString(start) \o "-" \o NumberToString(end)
               \o "/" \o NumberToString(fileSize),
             NumberToString(end - start), "", SubSeq(data, start + 1, end))

\* The range branch after its validation: the 206 response.
\* fs.createReadStream(resolvedPath, {start, end}) raises a RangeError when
\* start > end; otherwise it reads the bytes start..end, both included, as far
\* as the file goes.
StreamSpan(resolvedPath, data, fileSize, start, end) ==
  IF start > end THEN NextError(resolvedPath, "ERR_OUT_OF_RANGE")
  ELSE Sends(resolvedPath, 206,
             "bytes " \o NumberToString(start) \o "-" \o NumberToString(end)
               \o "/" \o NumberToString(fileSize),
             NumberToString(end - start + 1), "",
             SubSeq(data, start + 1, IF end < Len(data) THEN end + 1 ELSE Len(data)))

\* The range validation with "greater than" in place of "at least".
StreamParsedLoose(resolvedPath, data, fileSize, start, end) ==
  IF start = NaN \/ end = NaN \/ Val(start) > fileSize \/ Val(end) > fileSize
    THEN Sends(resolvedPath, 416, "bytes */" \o NumberToString(fileSize), Undefined, "", <<>>)
  ELSE StreamSpan(resolvedPath, data, fileSize, Val(start), Val(end))

\* The range branch from the parsed start and end: the validation and the 416
\* response.
StreamParsed(resolvedPath, data, fileSize, start, end) ==
  IF start = NaN \/ end = NaN \/ Val(start) >= fileSize \/ Val(end) >= fileSize
    THEN Sends(resolvedPath, 416, "bytes */" \o NumberToString(fileSize), Undefined, "", <<>>)
  ELSE StreamSpan(resolvedPath, data, fileSize, Val(start), Val(end))

\* The handler.  fs.promises.stat rejects for a path that does not exist.
streamFile(d, req) ==
  LET End(parts, fileSize) ==
        IF Len(parts) >= 2 /\ parts[2] # "" THEN parseInt(parts[2]) ELSE Num(fileSize - 1)
      Parts(resolvedPath, data, parts) ==
        StreamParsed(resolvedPath, data, Len(data), parseInt(parts[1]), End(parts, Len(data)))
      Stat(resolvedPath, data) ==
        IF Truthy(req.range)
          THEN Parts(resolvedPath, data, Split(RemoveFirst(req.range, "bytes="), "-"))
        ELSE Sends(resolvedPath, 200, Undefined, NumberToString(Len(data)), "", data)
      Resolved(resolvedPath) ==
        IF ~StartsWith(resolvedPath, MUSIC_DIR \o sep)
          THEN Sends(resolvedPath, 400, Undefined, Undefined, "Invalid file path", <<>>)
        ELSE IF ~existsSync(d, resolvedPath) THEN NextError(resolvedPath, "ENOENT")
        ELSE IF ~IsFile(d, resolvedPath)
          THEN Sends(resolvedPath, 404, Undefined, Undefined, "File not found", <<>>)
        ELSE Stat(resolvedPath, d[resolvedPath].data)
  IN Resolved(resolve(<<MUSIC_DIR, req.params.project, req.params.file>>))

Stream(req) ==
  LET Streamed(sent) ==
        /\ last' = [ep |-> "stream", range |-> req.range, resolvedPath |-> sent.resolvedPath,
                    projectPath |-> resolve(<<MUSIC_DIR, req.params.project>>),
                    status |-> sent.status, contentRange |-> sent.contentRange,
                    contentLength |-> sent.contentLength, text |-> sent.text,
                    bytes |-> sent.bytes]
        /\ UNCHANGED <<authVars, disk, pushVars>>
  IN Streamed(streamFile(disk, req))

\* The texts on either side of the "-" of a range header: nothing, the numbers
\* up to one past the largest file size, and a word.
RangeTexts == {"", "x"} \cup {NumberToString(i) : i \in 0..(MaxSize + 1)}

RangeHeaders ==
  {Undefined, "", "bytes=", "bytes=1", "1-2", "items=0-1", "bytes= 1-2", "bytes=0-1-2"}
    \cup {"bytes=" \o s \o "-" \o e : s \in RangeTexts, e \in RangeTexts}

StreamRequests ==
  {[params |-> [project |-> "A", file |-> f], range |-> r] :
     f \in {"x.wav", "gone.wav", "sub", ".."}, r \in RangeHeaders}
    \cup {[params |-> [project |-> "B", file |-> f], range |-> Undefined] :
            f \in {"../A/x.wav", "../../auth.json", "/app/auth.json"}}

\* A music directory holding project A with a subdirectory and a demo of the
\* given size, each of its bytes different from the others.
StreamDisk(size) ==
  [q \in {sep, APP_DIR, MUSIC_DIR, "/app/music/A", "/app/music/A/sub", "/app/music/A/x.wav"} |->
     IF q = "/app/music/A/x.wav" THEN File([i \in 1..size |-> 64 + i], 0) ELSE Dir]

(***************************************************************************)
(* The push channel and the watcher (server.js 568-600).                   *)
(***************************************************************************)
\* GET /events on a new connection: the first message is written and the
\* response joins clients.
Events(c) ==
  /\ wire[c] = <<>>
  /\ wire' = [wire EXCEPT ![c] = <<"data: connected\n\n">>]
  /\ clients' = clients \cup {c}
  /\ last' = [ep |-> "events", conn |-> c]
  /\ UNCHANGED <<authVars, disk, running, watched, removal>>

\* A close listener that leaves the response in clients.
CloseKeeps(c) ==
  /\ c \in clients
  /\ last' = [ep |-> "close", conn |-> c]
  /\ UNCHANGED <<authVars, disk, clients, wire, running, watched, removal>>

\* req.on("close"): the connection of a client is gone.
Close(c) ==
  /\ c \in clients
  /\ clients' = clients \ {c}
  /\ last' = [ep |-> "close", conn |-> c]
  /\ UNCHANGED <<authVars, disk, wire, running, watched, removal>>

\* A broadcast that writes nothing.
broadcastReloadNone(set, w) == w

\* A broadcast that writes to every connection.
broadcastReloadAll(set, w) == [c \in Connections |-> Append(w[c], "data: reload\n\n")]

\* broadcastReload: what is written to each connection.
broadcastReload(set, w) ==
  [c \in Connections |-> IF c \in set THEN Append(w[c], "data: reload\n\n") ELSE w[c]]

\* The watcher reports an event of the music directory; with it, the tree as
\* it is has been reported.
WatcherEvent(event) ==
  /\ \A c \in clients : Len(wire[c]) <= MaxEvents
  /\ wire' = broadcastReload(clients, wire)
  /\ watched' = Watchable(disk)
  /\ last' = [ep |-> "watcher", event |-> event]
  /\ UNCHANGED <<authVars, disk, clients, running, removal>>

(***************************************************************************)
(* Specifications.                                                         *)
(***************************************************************************)
\* auth.json when the process starts: missing, unreadable, or the record of an
\* earlier run.
InitFiles ==
  {NoFile, Garbage, JsonStringify(createPasswordHash("correct horse", Salt(0)))}

\* The file system when the process starts: with or without the music directory.
InitDisks ==
  {[q \in {sep, APP_DIR} |-> Dir], [q \in {sep, APP_DIR, MUSIC_DIR} |-> Dir]}

Init ==
  /\ TRUST_PROXY \in BOOLEAN
  /\ authFile \in InitFiles
  /\ authConfig = loadAuthConfig(authFile)
  /\ sessionTokens = {}
  /\ setups = [k \in 1..MaxSetups |-> Idle]
  /\ issued = {}
  /\ disk \in InitDisks
  /\ clients = {}
  /\ wire = [c \in Connections |-> <<>>]
  /\ running = TRUE
  /\ watched = Watchable(disk)
  /\ removal = Idle
  /\ last = Quiet

\* The authentication endpoints, with MaxSetups setup requests in flight.
NextAuth ==
  \/ \E req \in CookieRequests : Status(req)
  \/ \E req \in PasswordRequests, k \in 1..MaxSetups : SetupBegin(req, k)
  \/ \E k \in 1..MaxSetups : SetupWrite(k)
  \/ \E k \in 1..MaxSetups : SetupFinish(k, NextToken)
  \/ \E req \in PasswordRequests : Login(req, NextToken)
  \/ \E req \in CookieRequests : Logout(req)

SpecAuth == Init /\ [][NextAuth]_vars

\* The authentication endpoints with one setup request at a time, and the
\* mutation API: project A is created and renamed to B; B is deleted, and
\* receives, renames and loses demos.
Next ==
  \/ \E req \in Sent(NoParams, NoBody, NoFilePart) : Status(req)
  \/ \E req \in ClientPasswordRequests : SetupBegin(req, 1)
  \/ SetupWrite(1)
  \/ SetupFinish(1, NextToken)
  \/ \E req \in ClientPasswordRequests : Login(req, NextToken)
  \/ \E req \in Sent(NoParams, NoBody, NoFilePart) : Logout(req)
  \/ \E n \in {Str("A"), Missing} :
       \E req \in Sent(NoParams, [NoBody EXCEPT !.name = n], NoFilePart) : PostProject(req, 0)
  \/ \E req \in Sent([name |-> "A", file |-> ""], [NoBody EXCEPT !.name = Str("B")], NoFilePart) :
       PutProject(req, 0)
  \/ \E req \in Sent([name |-> "B", file |-> ""], NoBody, NoFilePart) : DeleteProject(req, 0)
  \/ \E f \in {FilePart("x.wav", <<1, 2>>), FilePart("notes.txt", <<3>>), NoFilePart} :
       \E req \in Sent([name |-> "B", file |-> ""], NoBody, f) : PostUpload(req, 0)
  \/ \E req \in Sent([name |-> "B", file |-> "x.wav"], [NoBody EXCEPT !.name = Str("y")],
                     NoFilePart) :
       PutDemo(req, 0)
  \/ \E req \in Sent([name |-> "B", file |-> "y.wav"], NoBody, NoFilePart) : DeleteDemo(req, 0)

Spec == Init /\ [][Next]_vars

\* The streamer over a file of each size.
InitStream ==
  /\ TRUST_PROXY = FALSE
  /\ authFile = NoFile
  /\ authConfig = loadAuthConfig(authFile)
  /\ sessionTokens = {}
  /\ setups = [k \in 1..MaxSetups |-> Idle]
  /\ issued = {}
  /\ disk \in {StreamDisk(size) : size \in 0..MaxSize}
  /\ clients = {}
  /\ wire = [c \in Connections |-> <<>>]
  /\ running = TRUE
  /\ watched = Watchable(disk)
  /\ removal = Idle
  /\ last = Quiet

NextStream == \E req \in StreamRequests : Stream(req)

SpecStream == InitStream /\ [][NextStream]_vars

\* A request of a client on the server itself, holding the first session token.
\* Music directories the process can find itself with: an empty one; one with
\* project A holding a demo and B holding a demo with an uppercase suffix and
\* a text file; one with C holding a demo in a subdirectory only, a directory
\* L that holds a demo and cannot be listed, an empty directory b and a
\* regular file F.  Next
\* to the music directory is another directory whose name starts alike.
TreeDisks ==
  LET Base == [q \in {sep, APP_DIR, MUSIC_DIR, "/app/music2", "/app/music2/s.wav"} |->
                 IF q = "/app/music2/s.wav" THEN File(<<9>>, 1) ELSE Dir]
      Projects ==
        [q \in {"/app/music/A", "/app/music/A/x.wav", "/app/music/B", "/app/music/B/Y.WAV",
                "/app/music/B/notes.txt"} |->
           IF q = "/app/music/A/x.wav" THEN File(<<1, 2>>, 1)
           ELSE IF q = "/app/music/B/Y.WAV" THEN File(<<3>>, 2)
           ELSE IF q = "/app/music/B/notes.txt" THEN File(<<4>>, 5)
           ELSE Dir]
      Odd == [q \in {"/app/music/L", "/app/music/L/w.wav", "/app/music/F", "/app/music/b",
                     "/app/music/C", "/app/music/C/sub", "/app/music/C/sub/z.wav"} |->
                IF q = "/app/music/L" THEN LockedDir
                ELSE IF q = "/app/music/L/w.wav" THEN File(<<8>>, 6)
                ELSE IF q = "/app/music/F" THEN File(<<6>>, 4)
                ELSE IF q = "/app/music/C/sub/z.wav" THEN File(<<5>>, 2)
                ELSE Dir]
  IN {Base, Projects @@ Base, Odd @@ Base}

InitTree ==
  /\ TRUST_PROXY = FALSE
  /\ authFile = JsonStringify(createPasswordHash("correct horse", Salt(0)))
  /\ authConfig = loadAuthConfig(authFile)
  /\ sessionTokens = {}
  /\ setups = [k \in 1..MaxSetups |-> Idle]
  /\ issued = {}
  /\ disk \in TreeDisks
  /\ clients = {}
  /\ wire = [c \in Connections |-> <<>>]
  /\ running = TRUE
  /\ watched = Watchable(disk)
  /\ removal = Idle
  /\ last = Quiet

\* The mutation API, the project page and the streamer under the requests of
\* one authenticated local client.  The project names and the demo names are
\* names of the entries of the disks, a name of no entry, and names that lead
\* out of the project or out of the music directory; every endpoint is asked
\* with every project name, and with every demo name and every new name on
\* project A.
NextTree ==
  LET TreeRequest(params, body, file) ==
        Request([ip |-> "127.0.0.1", forwarded |-> <<>>], "music_auth=t1", params, body, file)
      TreeNames == {"A", "B", "C", "L", "F", "b", "Z", "../music2", "/app/music2"}
      TreeTargets == {"A", "../music2", "/app/music2"}
      TreeFiles == {"x.wav", "gone.wav", "../B/Y.WAV", "../../music2/s.wav",
                    "/app/music2/s.wav"}
  IN \/ \E req \in {TreeRequest(NoParams, [NoBody EXCEPT !.password = Str("correct horse")],
                                NoFilePart)} :
          Login(req, NextToken)
     \/ \E n \in {Str(".."), Str(" / "), Missing} :
          PostProject(TreeRequest(NoParams, [NoBody EXCEPT !.name = n], NoFilePart), 3)
     \/ \E p \in TreeTargets \cup {"A/x.wav"},
           n \in {Str("N"), Str("B"), Str(" A "), Str(".."), Missing} :
          /\ p = "A" \/ n = Str("N")
          /\ PutProject(TreeRequest([name |-> p, file |-> ""], [NoBody EXCEPT !.name = n],
                                    NoFilePart), 3)
     \/ \E p \in TreeNames :
          DeleteProject(TreeRequest([name |-> p, file |-> ""], NoBody, NoFilePart), 3)
     \/ \E p \in TreeTargets,
           f \in {FilePart("t.WAV", <<7>>), FilePart("../../music2/t.WAV", <<7>>),
                  FilePart("notes.txt", <<3>>)} :
          /\ p = "A" \/ f.originalname = "t.WAV"
          /\ PostUpload(TreeRequest([name |-> p, file |-> ""], NoBody, f), 3)
     \/ \E p \in TreeNames, f \in TreeFiles, n \in {Str("n"), Str("../../music2/s.wav"), Missing} :
          /\ p = "A" \/ f = "x.wav"
          /\ (p = "A" /\ f = "x.wav") \/ n = Str("n")
          /\ PutDemo(TreeRequest([name |-> p, file |-> f], [NoBody EXCEPT !.name = n],
                                 NoFilePart), 3)
     \/ \E p \in TreeNames, f \in TreeFiles :
          /\ p = "A" \/ f = "x.wav"
          /\ DeleteDemo(TreeRequest([name |-> p, file |-> f], NoBody, NoFilePart), 3)
     \/ \E p \in TreeNames :
          ProjectPage(TreeRequest([name |-> p, file |-> ""], NoBody, NoFilePart))
     \/ \E p \in TreeNames, f \in TreeFiles :
          /\ p = "A" \/ f = "x.wav"
          /\ Stream([params |-> [project |-> p, file |-> f], range |-> Undefined])

SpecTree == InitTree /\ [][NextTree]_vars

\* A password is configured and the music directory is empty, or is not there
\* yet.
InitScenario ==
  LET Empty == [q \in {sep, APP_DIR, MUSIC_DIR} |-> Dir]
      Absent == [q \in {sep, APP_DIR} |-> Dir]
  IN /\ TRUST_PROXY \in BOOLEAN
     /\ authFile = JsonStringify(createPasswordHash("correct horse", Salt(0)))
     /\ authConfig = loadAuthConfig(authFile)
     /\ sessionTokens = {}
     /\ setups = [k \in 1..MaxSetups |-> Idle]
     /\ issued = {}
     /\ disk \in {Empty, Absent}
     /\ clients = {}
     /\ wire = [c \in Connections |-> <<>>]
     /\ running = TRUE
     /\ watched = Watchable(disk)
     /\ removal = Idle
     /\ last = Quiet

\* One client of the local network (behind the proxy, when the server trusts
\* one) works through the life of a project, each request sent when the
\* answer to the one before has arrived: log in, create 'Demo A',
\* upload track.wav, rename it to final.wav, open the project page, ask to
\* delete the project, delete final.wav, ask to delete the project again.
NextScenario ==
  LET Ask(params, body, file) ==
        Request(IF TRUST_PROXY THEN [ip |-> "127.0.0.1", forwarded |-> <<"192.168.0.1">>]
                ELSE [ip |-> "192.168.0.1", forwarded |-> <<>>],
                "music_auth=t1", params, body, file)
      Project == [name |-> "Demo A", file |-> ""]
      Demo(f) == [name |-> "Demo A", file |-> f]
  IN \/ /\ last.ep = "start"
        /\ Login(Ask(NoParams, [NoBody EXCEPT !.password = Str("correct horse")], NoFilePart),
                 NextToken)
     \/ /\ last.ep = "login"
        /\ \E note \in {Missing, Str("first takes")} :
             PostProject(Ask(NoParams, [NoBody EXCEPT !.name = Str("Demo A"), !.note = note],
                             NoFilePart), 1)
     \/ /\ last.ep = "createProject"
        /\ \E data \in {<<>>, <<7>>, <<7, 8>>, <<9, 9, 9>>}, now \in {2, 3} :
             PostUpload(Ask(Project, NoBody, FilePart("track.wav", data)), now)
     \/ /\ last.ep = "uploadDemo"
        /\ \E name \in {Str("final.wav"), Str("final")} :
             PutDemo(Ask(Demo("track.wav"), [NoBody EXCEPT !.name = name], NoFilePart), 4)
     \/ /\ last.ep = "renameDemo"
        /\ ProjectPage(Ask(Project, NoBody, NoFilePart))
     \/ /\ last.ep \in {"page", "deleteDemo"}
        /\ DeleteProject(Ask(Project, NoBody, NoFilePart), 5)
     \/ /\ last.ep = "deleteProject"
        /\ last.status = 400
        /\ DeleteDemo(Ask(Demo("final.wav"), NoBody, NoFilePart), 5)

SpecScenario == InitScenario /\ [][NextScenario]_vars

\* The process while it runs: connections to /events come and go, the watcher
\* reports events, and a first password is set, with a file write that can
\* fail.
NextPush ==
  LET req == Request([ip |-> "127.0.0.1", forwarded |-> <<"127.0.0.1">>], Undefined, NoParams,
                     [NoBody EXCEPT !.password = Str("correct horse")], NoFilePart)
  IN \/ running /\ \E c \in Connections : Events(c)
     \/ running /\ \E c \in Connections : Close(c)
     \/ running /\ \E event \in {"add", "unlink", "addDir", "unlinkDir", "change"} :
                      WatcherEvent(event)
     \/ running /\ SetupBegin(req, 1)
     \/ running /\ SetupWrite(1)
     \/ running /\ SetupFinish(1, NextToken)
     \/ running /\ \E outcome \in {"answer", "exit", "hang"} : SetupWriteFails(1, outcome)
     \/ running /\ Login(req, NextToken)

SpecPush == Init /\ [][NextPush]_vars

\* The server trusts no proxy, a password is configured and the music
\* directory is empty.
InitReload ==
  /\ InitScenario
  /\ ~TRUST_PROXY
  /\ IsDir(disk, MUSIC_DIR)

\* Live reload: connections to /events come and go while a client of the local
\* network creates project P, uploads t.wav, renames it to u.wav, deletes it,
\* renames the empty project to Q, and deletes Q, each request sent on the
\* tree it fits.  The watcher reports a change of the tree it has not
\* reported yet; the client changes the tree again only after the report of
\* the change before.
NextReload ==
  LET Ask(params, body, file) ==
        Request([ip |-> "192.168.0.1", forwarded |-> <<>>], "music_auth=t1", params, body, file)
      Reported ==
        /\ last.ep # "start"
        /\ Watchable(disk) = watched
        /\ \A c \in clients : Len(wire[c]) <= MaxEvents
      Has(name) == (MUSIC_DIR \o sep \o name) \in DOMAIN disk
      P == [name |-> "P", file |-> ""]
  IN \/ /\ last.ep = "start"
        /\ Login(Ask(NoParams, [NoBody EXCEPT !.password = Str("correct horse")], NoFilePart),
                 NextToken)
     \/ last.ep # "start" /\ \E c \in Connections : Events(c)
     \/ last.ep # "start" /\ \E c \in Connections : Close(c)
     \/ /\ Reported /\ ~Has("P") /\ ~Has("Q")
        /\ PostProject(Ask(NoParams, [NoBody EXCEPT !.name = Str("P")], NoFilePart), 1)
     \/ /\ Reported /\ Has("P") /\ ~Has("P/t.wav") /\ ~Has("P/u.wav")
        /\ PostUpload(Ask(P, NoBody, FilePart("t.wav", <<7>>)), 2)
     \/ /\ Reported /\ Has("P/t.wav")
        /\ PutDemo(Ask([name |-> "P", file |-> "t.wav"],
                       [NoBody EXCEPT !.name = Str("u")], NoFilePart), 3)
     \/ /\ Reported /\ Has("P/u.wav")
        /\ DeleteDemo(Ask([name |-> "P", file |-> "u.wav"], NoBody, NoFilePart), 3)
     \/ /\ Reported /\ Has("P") /\ ~Has("P/t.wav") /\ ~Has("P/u.wav")
        /\ PutProject(Ask(P, [NoBody EXCEPT !.name = Str("Q")], NoFilePart), 3)
     \/ /\ Reported /\ Has("Q")
        /\ DeleteProject(Ask([name |-> "Q", file |-> ""], NoBody, NoFilePart), 3)
     \/ /\ Watchable(disk) # watched
        /\ \E event \in {"add", "unlink", "addDir", "unlinkDir", "change"} : WatcherEvent(event)

\* A deletion of project P suspended before its rm, among the requests of the
\* same client that create P, upload t.wav and u.wav to it, rename t.wav to
\* 'u' and delete P in one step.
NextRace ==
  LET Ask(params, body, file) ==
        Request([ip |-> "192.168.0.1", forwarded |-> <<>>], "music_auth=t1", params, body, file)
      P == [name |-> "P", file |-> ""]
  IN \/ /\ last.ep = "start"
        /\ Login(Ask(NoParams, [NoBody EXCEPT !.password = Str("correct horse")], NoFilePart),
                 NextToken)
     \/ last.ep # "start" /\ PostProject(Ask(NoParams, [NoBody EXCEPT !.name = Str("P")],
                                             NoFilePart), 1)
     \/ last.ep # "start" /\ DeleteProject(Ask(P, NoBody, NoFilePart), 1)
     \/ last.ep # "start" /\ DeleteProjectBegin(Ask(P, NoBody, NoFilePart), 1)
     \/ DeleteProjectRemove
     \/ /\ last.ep # "start"
        /\ \E f \in {FilePart("t.wav", <<7>>), FilePart("u.wav", <<8>>)}, now \in {2, 3} :
             PostUpload(Ask(P, NoBody, f), now)
     \/ /\ last.ep # "start"
        /\ PutDemo(Ask([name |-> "P", file |-> "t.wav"], [NoBody EXCEPT !.name = Str("u")],
                       NoFilePart), 4)

SpecRace == InitReload /\ [][NextRace]_vars

\* The watcher delivers the event of a change in the end.
SpecReload ==
  /\ InitReload
  /\ [][NextReload]_vars
  /\ WF_vars(/\ Watchable(disk) # watched
             /\ \E event \in {"add", "unlink", "addDir", "unlinkDir", "change"} :
                  WatcherEvent(event))

\* The origin gate of a mutating route under the probes.
NextOrigin ==
  \E o \in ProbeOrigins :
    PostProject(Request(o, "music_auth=t1", NoParams, NoBody, NoFilePart), 0)

SpecOrigin == Init /\ [][NextOrigin]_vars

(***************************************************************************)
(* Properties.                                                             *)
(***************************************************************************)
SetupRequired == "Set an editing password to continue."
AuthenticationRequired == "Authentication required."
AlreadyConfigured == "Password already configured."
WeakPassword == "Password must be at least 8 characters."
NotConfigured == "No password configured yet."
MissingPassword == "Password is required."
InvalidCredentials == "Incorrect password."

\* C1: a request to one of the six mutating endpoints changes the music
\* directory tree only if its origin is classified local, a credential record
\* is configured and its cookie carries a token of the session set; a request
\* failing any of the three leaves the tree unchanged.
C1_TreeChangesBehindGates ==
  [][last'.ep \in MutatingEndpoints =>
       /\ last'.changed <=> disk' # disk
       /\ disk' # disk => last'.local /\ last'.configured /\ last'.valid
       /\ ~(last'.local /\ last'.configured /\ last'.valid) => disk' = disk]_vars

\* An upload from a local, authenticated client has changed the tree.
C1_Witness ==
  /\ last.ep = "uploadDemo"
  /\ last.changed
  /\ last.local /\ last.configured /\ last.valid

\* C2: on every mutating endpoint the response is 403 when the origin is not
\* local, whatever the session and the configuration; otherwise 401 "setup
\* required" when no credentials are configured; otherwise 401 "authentication
\* required" when the request carries no valid session token; only otherwise
\* does the handler run.
C2_GateOrdering ==
  last.ep \in MutatingEndpoints =>
    /\ ~last.local => last.status = 403
    /\ (last.local /\ ~last.configured) =>
         last.status = 401 /\ last.error = SetupRequired
    /\ (last.local /\ last.configured /\ ~last.valid) =>
         last.status = 401 /\ last.error = AuthenticationRequired
    /\ (last.local /\ last.configured /\ last.valid) => last.status \notin {401, 403}

C4_LoginFailures ==
  [][last'.ep = "login" =>
       /\ last'.status = 200 =>
            /\ authConfig # Null
            /\ last'.password # ""
            /\ authConfig.hash = pbkdf2Sync(last'.password, authConfig.salt,
                                            authConfig.iterations, KEY_LENGTH, authConfig.digest)
       /\ last'.status # 200 =>
            /\ sessionTokens' = sessionTokens
            /\ authConfig' = authConfig
            /\ authFile' = authFile
            /\ last'.cookie = NoCookie
       /\ authConfig = Null => last'.status = 400 /\ last'.error = NotConfigured
       /\ (authConfig # Null /\ last'.password = "") =>
            last'.status = 400 /\ last'.error = MissingPassword
       /\ (authConfig # Null /\ last'.password # "" /\ last'.status # 200) =>
            last'.status = 401 /\ last'.error = InvalidCredentials]_vars

\* A login with a wrong password was refused while a session existed.
C4_Witness ==
  /\ last.ep = "login"
  /\ last.error = InvalidCredentials
  /\ last.password = "hunter2hunter2"
  /\ sessionTokens # {}

\* C5: setup fails AlreadyConfigured whenever a record exists, whatever the
\* length of the password; with no record it fails WeakPassword when the
\* password is shorter than 8 characters; both failures change neither the
\* record nor the session set.  Otherwise the request goes on to write the
\* record, and when it answers the record is on disk and in memory and exactly
\* one new token is in the session set.
C5_Setup ==
  [][last'.ep = "setup" =>
       /\ (last'.status # 200 /\ last'.configured) =>
            last'.status = 400 /\ last'.error = AlreadyConfigured
       /\ (last'.status # 200 /\ ~last'.configured /\ Len(last'.password) < 8) =>
            last'.status = 400 /\ last'.error = WeakPassword
       /\ (last'.status # 200 /\ ~last'.configured /\ Len(last'.password) >= 8) =>
            last'.error = "pending"
       /\ last'.status # 200 =>
            /\ authConfig' = authConfig
            /\ authFile' = authFile
            /\ sessionTokens' = sessionTokens
            /\ last'.cookie = NoCookie
       /\ last'.status = 200 =>
            /\ ~last'.configured
            /\ Len(last'.password) >= 8
            /\ authConfig' # Null
            /\ authFile' = JsonStringify(authConfig')
            /\ authConfig'.hash = pbkdf2Sync(last'.password, authConfig'.salt,
                                             authConfig'.iterations, KEY_LENGTH,
                                             authConfig'.digest)
            /\ last'.cookie.value \notin sessionTokens
            /\ sessionTokens' = sessionTokens \cup {last'.cookie.value}]_vars

\* A setup with a short password was refused as AlreadyConfigured.
C5_Witness ==
  /\ last.ep = "setup"
  /\ last.configured
  /\ last.password = "1234567"
  /\ last.error = AlreadyConfigured

\* C6: under any interleaving of setup requests the credential record is
\* created once: once a record is configured neither the record in memory nor
\* the record on disk changes, the two agree, and every setup that answers
\* afterwards fails AlreadyConfigured without issuing a token.
C6_RecordCreatedOnce ==
  [][/\ authConfig # Null =>
          /\ authConfig' = authConfig
          /\ authFile' = authFile
          /\ last'.ep = "setup" =>
               /\ last'.status = 400
               /\ last'.error = AlreadyConfigured
               /\ sessionTokens' = sessionTokens
     /\ authConfig' # Null => loadAuthConfig(authFile') = authConfig']_vars

\* C7: a credential record is written, and a session token is added, only for
\* a request whose origin is classified local.
C7_LocalOnly ==
  [][(authFile' # authFile \/ sessionTokens' \ sessionTokens # {}) => last'.local]_vars

\* C8: logout answers 200 and clears the cookie whatever the request carries,
\* and removes exactly the token the request carries from the session set (so
\* that a second logout with the same token changes nothing more).
C8_Logout ==
  [][last'.ep = "logout" =>
       /\ last'.status = 200
       /\ last'.cookie = ClearCookie
       /\ sessionTokens' = sessionTokens \ {last'.token}
       /\ last'.token \notin sessionTokens']_vars

\* The range response for the bytes s..e of the data, and the refusal.
Streamed206(s, e, data) ==
  /\ last.status = 206
  /\ last.contentRange = "bytes " \o NumberToString(s) \o "-" \o NumberToString(e)
                           \o "/" \o NumberToString(Len(data))
  /\ last.contentLength = NumberToString(e - s + 1)
  /\ last.bytes = [i \in 1..(e - s + 1) |-> data[s + i]]

Streamed416(data) ==
  /\ last.status = 416
  /\ last.contentRange = "bytes */" \o NumberToString(Len(data))
  /\ last.bytes = <<>>

RangeNumbers == 0..(MaxSize + 1)

\* C9: for a regular file of size N and a range header bytes=s-e with
\* 0 <= s <= e < N, or bytes=s- with 0 <= s < N (e is then N-1), the streamer
\* answers 206 with Content-Range "bytes s-e/N" and Content-Length e-s+1, and
\* sends exactly the bytes s..e of the file.
C9_RangeServed ==
  (last.ep = "stream" /\ IsFile(disk, last.resolvedPath)) =>
    \A s \in RangeNumbers :
      /\ \A e \in RangeNumbers :
           (/\ s <= e
            /\ e < Len(disk[last.resolvedPath].data)
            /\ last.range = "bytes=" \o NumberToString(s) \o "-" \o NumberToString(e))
             => Streamed206(s, e, disk[last.resolvedPath].data)
      /\ (/\ s < Len(disk[last.resolvedPath].data)
          /\ last.range = "bytes=" \o NumberToString(s) \o "-")
           => Streamed206(s, Len(disk[last.resolvedPath].data) - 1,
                          disk[last.resolvedPath].data)

\* The two middle bytes of a file of three bytes were served.
C9_Witness ==
  /\ last.ep = "stream"
  /\ last.range = "bytes=1-2"
  /\ last.status = 206
  /\ last.contentRange = "bytes 1-2/3"
  /\ last.bytes = <<66, 67>>

\* C10: for a regular file of size N, when the start or the end of the range
\* header is not an integer, or the start is at least N, or the end is at least
\* N, the streamer answers 416 with Content-Range "bytes */N" and sends no byte
\* of the file; every range request on an empty file is answered so.
C10_RangeRefused ==
  (last.ep = "stream" /\ IsFile(disk, last.resolvedPath)) =>
    /\ \A s \in RangeNumbers, e \in RangeNumbers :
         (/\ s >= Len(disk[last.resolvedPath].data) \/ e >= Len(disk[last.resolvedPath].data)
          /\ last.range = "bytes=" \o NumberToString(s) \o "-" \o NumberToString(e))
           => Streamed416(disk[last.resolvedPath].data)
    /\ \A s \in RangeNumbers :
         (/\ s >= Len(disk[last.resolvedPath].data)
          /\ last.range = "bytes=" \o NumberToString(s) \o "-")
           => Streamed416(disk[last.resolvedPath].data)
    /\ \A t \in RangeTexts :
         last.range \in {"bytes=x-" \o t, "bytes=-" \o t, "bytes=" \o t \o "-x"}
           => Streamed416(disk[last.resolvedPath].data)
    /\ last.range \in {"bytes=", "items=0-1"} => Streamed416(disk[last.resolvedPath].data)
    /\ (Len(disk[last.resolvedPath].data) = 0 /\ Truthy(last.range))
         => Streamed416(disk[last.resolvedPath].data)

\* A range ending at the size of the file was refused.
C10_Witness ==
  /\ last.ep = "stream"
  /\ last.range = "bytes=0-3"
  /\ IsFile(disk, last.resolvedPath)
  /\ Len(disk[last.resolvedPath].data) = 3
  /\ last.status = 416
  /\ last.contentRange = "bytes */3"

\* C11: when the path the streamer resolves is inside the music directory and
\* is missing, or exists and is not a regular file, the response is 404.
C11_NotFound ==
  (/\ last.ep = "stream"
   /\ StartsWith(last.resolvedPath, MUSIC_DIR \o sep)
   /\ ~IsFile(disk, last.resolvedPath))
    => last.status = 404

\* C12: the streamer answers 400 and sends no byte of a file whenever the path
\* it resolves is not strictly below the directory of the project the request
\* names.
C12_ConfinedToProject ==
  (last.ep = "stream" /\ ~StartsWith(last.resolvedPath, last.projectPath \o sep))
    => last.status = 400 /\ last.bytes = <<>>

\* C13: on every endpoint that takes a project or a file name (project page,
\* rename and delete project, upload, rename and delete demo, streamer), a
\* name whose resolved path is not below the music directory is answered 400.
C13_EscapeIs400 ==
  LET Escapes(path) == ~StartsWith(path, MUSIC_DIR \o sep)
      Named(project, file) ==
        \/ Escapes(resolve(<<MUSIC_DIR, project>>))
        \/ Escapes(resolve(<<MUSIC_DIR, project, file>>))
  IN /\ (last.ep = "page" /\ Escapes(resolve(<<MUSIC_DIR, last.name>>)))
          => last.status = 400
     /\ (/\ last.ep \in {"renameProject", "deleteProject", "uploadDemo", "renameDemo",
                          "deleteDemo"}
         /\ last.local
         /\ last.valid
         /\ Named(last.params.name, last.params.file))
          => last.status = 400
     /\ (last.ep = "stream" /\ Escapes(last.resolvedPath)) => last.status = 400

\* C14: no request to the registry or to the streamer, whatever names it
\* carries, creates, changes, renames or removes a path outside the music
\* directory; the streamer sends bytes of no file outside it, and the project
\* page lists the demos of no directory outside it.
C14_OutsideUntouched ==
  [][LET Outside(q) == q # MUSIC_DIR /\ ~StartsWith(q, MUSIC_DIR \o sep)
     IN /\ \A q \in DOMAIN disk \cup DOMAIN disk' :
             Outside(q) => q \in DOMAIN disk /\ q \in DOMAIN disk' /\ disk'[q] = disk[q]
        /\ (last'.ep = "stream" /\ last'.status \in {200, 206})
             => ~Outside(last'.resolvedPath)
        /\ (last'.ep = "page" /\ last'.status = 200)
             => ~Outside(resolve(<<MUSIC_DIR, last'.name>>))]_vars

\* A local authenticated client has asked to rename the directory next to the
\* music directory into it, and to delete a file by an absolute path outside.
C14_WitnessRename ==
  /\ last.ep = "renameProject"
  /\ last.local /\ last.valid
  /\ last.params.name = "../music2"
  /\ last.name = Str("N")
  /\ IsFile(disk, "/app/music2/s.wav")
  /\ ~IsDir(disk, "/app/music/N")

\* C15: an admitted DELETE /api/projects/:name for a directory inside the
\* music directory whose entries can be listed and include a regular file
\* with the suffix .wav in any letter case is answered 400 and changes
\* nothing; for a path that does not exist it is answered 404 and changes
\* nothing; and a request removes something only when it is answered 200, the
\* project existed with no such file, and the project and everything below it
\* are gone afterwards.
C15_DeleteProject ==
  [][(last'.ep = "deleteProject" /\ last'.local /\ last'.valid)
       => LET projectPath == resolve(<<MUSIC_DIR, last'.params.name>>)
              Tree(d) == {q \in DOMAIN d : q = projectPath \/ StartsWith(q, projectPath \o sep)}
              HasWav == \E q \in DOMAIN disk :
                          /\ disk[q].type = "file"
                          /\ dirname(q) = projectPath
                          /\ EndsWith(ToLowerCase(q), ".wav")
          IN StartsWith(projectPath, MUSIC_DIR \o sep)
               => /\ (Readable(disk, projectPath) /\ HasWav)
                       => last'.status = 400 /\ disk' = disk
                  /\ projectPath \notin DOMAIN disk
                       => last'.status = 404 /\ disk' = disk
                  /\ disk' # disk
                       => /\ last'.status = 200
                          /\ projectPath \in DOMAIN disk
                          /\ ~HasWav
                          /\ Tree(disk') = {}
                          /\ \A q \in DOMAIN disk \ Tree(disk) :
                                q \in DOMAIN disk' /\ disk'[q] = disk[q]]_vars

\* Project B, whose only demo is Y.WAV, was asked to be deleted: the answer is
\* 400 and the demo is still there.
C15_WitnessHasDemos ==
  /\ last.ep = "deleteProject"
  /\ last.local /\ last.valid
  /\ last.params.name = "B"
  /\ last.status = 400
  /\ IsFile(disk, "/app/music/B/Y.WAV")

\* C16: the list of projects a page is rendered with holds every directory
\* that is an immediate entry of the music directory exactly once; the
\* latestDemoMs of each is the greatest modification time of the .wav files
\* among its entries, and 0 when it has none or cannot be listed; and of two
\* neighbours the first has the greater latestDemoMs, or the same and the name
\* that sorts first.
C16_ListProjects ==
  (last.ep = "page" /\ last.status = 200)
    => LET ps == last.projects
           dirs == {q \in DOMAIN disk : q # sep /\ dirname(q) = MUSIC_DIR /\ disk[q].type = "dir"}
           Times(p) == {disk[q].mtime :
                          q \in {e \in DOMAIN disk :
                                   /\ dirname(e) = p
                                   /\ disk[e].type = "file"
                                   /\ EndsWith(ToLowerCase(e), ".wav")}}
           Expected(p) ==
             IF disk[p] = LockedDir \/ Times(p) = {} THEN {0}
             ELSE {t \in Times(p) : \A u \in Times(p) : t >= u}
       IN /\ Len(ps) = Cardinality(dirs)
          /\ \A p \in dirs :
               \E i \in 1..Len(ps) :
                 ps[i].name = basename(p) /\ ps[i].latestDemoMs \in Expected(p)
          /\ \A i \in 1..(Len(ps) - 1) :
               \/ ps[i].latestDemoMs > ps[i + 1].latestDemoMs
               \/ /\ ps[i].latestDemoMs = ps[i + 1].latestDemoMs
                  /\ LocaleBefore(ps[i].name, ps[i + 1].name)

\* A page listed four projects: A with an uploaded demo first, then b, C and
\* L, which have no time, by name; L holds a demo and cannot be listed.
C16_WitnessTies ==
  /\ last.ep = "page"
  /\ last.status = 200
  /\ Len(last.projects) = 4
  /\ last.projects[1].name = "A" /\ last.projects[1].latestDemoMs = 3
  /\ last.projects[2].name = "b" /\ last.projects[2].latestDemoMs = 0
  /\ last.projects[3].name = "C"
  /\ last.projects[4].name = "L" /\ last.projects[4].latestDemoMs = 0
  /\ IsFile(disk, "/app/music/L/w.wav")

\* C17: in the life of project 'Demo A' on an empty music directory, asked
\* for by an authenticated local client, every step has the outcome the
\* scenario names: the project is created (201); track.wav is uploaded (201);
\* it is renamed to final.wav (200); the project page then lists exactly one
\* demo, named final.wav and displayed as 'final'; the request to delete the
\* project is refused (400) and changes nothing while the file is there; the
\* file is deleted (200); and the project is then deleted (200) and is gone.
C17_Scenario ==
  [][LET projectPath == "/app/music/Demo A"
         Track == projectPath \o "/track.wav"
         Final == projectPath \o "/final.wav"
     IN /\ last'.ep = "createProject"
             => last'.status = 201 /\ IsDir(disk', projectPath)
        /\ last'.ep = "uploadDemo"
             => last'.status = 201 /\ IsFile(disk', Track)
        /\ last'.ep = "renameDemo"
             => /\ last'.status = 200
                /\ Track \notin DOMAIN disk'
                /\ IsFile(disk', Final)
                /\ disk'[Final] = disk[Track]
        /\ last'.ep = "page"
             => /\ last'.status = 200
                /\ Len(last'.demos) = 1
                /\ last'.demos[1].name = "final.wav"
                /\ last'.demos[1].displayName = "final"
        /\ (last'.ep = "deleteProject" /\ IsFile(disk, Final))
             => last'.status = 400 /\ disk' = disk
        /\ last'.ep = "deleteDemo"
             => last'.status = 200 /\ Final \notin DOMAIN disk' /\ IsDir(disk', projectPath)
        /\ (last'.ep = "deleteProject" /\ ~IsFile(disk, Final))
             => /\ last'.status = 200
                /\ \A q \in DOMAIN disk' : q # projectPath /\ ~StartsWith(q, projectPath \o sep)]_vars

\* The scenario has run to its end: the second request to delete the project
\* was answered and the music directory is empty again.
C17_WitnessEnd ==
  /\ last.ep = "deleteProject"
  /\ last.status = 200
  /\ last.params.name = "Demo A"
  /\ sessionTokens # {}
  /\ IsDir(disk, MUSIC_DIR)
  /\ DOMAIN disk = {sep, APP_DIR, MUSIC_DIR}

\* C18: every candidate address of a request is classified local exactly
\* when, an IPv4-mapped prefix '::ffff:' removed, it is 127.0.0.1 or ::1, or a
\* dotted quad of four decimal octets in 10.0.0.0/8, 172.16.0.0/12 or
\* 192.168.0.0/16, or an IPv6 address whose first group is in fc00..fdff;
\* every other value (empty, undefined, a dotted string with an empty or
\* non-numeric octet or with other than four octets) is classified not local;
\* and the origin gate lets the request pass exactly when some candidate is
\* classified local.
C18_ExactRanges ==
  LET Octet(part) ==
        /\ Len(part) \in 1..3
        /\ \A i \in 1..Len(part) : Includes(Digits, Char(part, i))
        /\ Val(Number(part)) <= 255
      Ipv4(parts) ==
        /\ Len(parts) = 4
        /\ \A i \in 1..4 : Octet(parts[i])
        /\ \/ parts[1] = "10"
           \/ parts[1] = "172" /\ Val(Number(parts[2])) \in 16..31
           \/ parts[1] = "192" /\ parts[2] = "168"
      UniqueLocal(group) ==
        /\ Len(group) = 4
        /\ SubSeq(group, 1, 2) \in {"fc", "fd"}
        /\ \A i \in 3..4 : Includes("0123456789abcdef", Char(group, i))
      InRanges(address) ==
        \/ address \in {"127.0.0.1", "::1"}
        \/ Includes(address, ":") /\ UniqueLocal(Split(address, ":")[1])
        \/ ~Includes(address, ":") /\ Ipv4(Split(address, "."))
      Local(ip) ==
        /\ ip # Undefined
        /\ ip # ""
        /\ InRanges(IF StartsWith(ip, "::ffff:") THEN SubSeq(ip, 8, Len(ip)) ELSE ip)
      ips == last.requestIps
  IN last.ep = "createProject"
       => /\ \A i \in 1..Len(ips) : IsLocal[ips[i]] = Local(ips[i])
          /\ last.local = (\E i \in 1..Len(ips) : IsLocal[ips[i]])
          /\ (last.status = 403) = ~last.local

\* C19: a watcher event of any kind appends exactly one message, the text
\* 'data: reload' with nothing of the event in it, to every connection that
\* is in clients at that moment, and writes nothing to any other connection.
C19_Broadcast ==
  [][last'.ep = "watcher"
       => \A c \in Connections :
            wire'[c] = IF c \in clients THEN wire[c] \o <<"data: reload\n\n">> ELSE wire[c]]_vars

\* An event was reported while connection 1 was in clients and connection 2
\* had been closed: the first has the message, the second has not.
C19_WitnessOneOfTwo ==
  /\ last.ep = "watcher"
  /\ clients = {1}
  /\ wire[1] = <<"data: connected\n\n", "data: reload\n\n">>
  /\ wire[2] = <<"data: connected\n\n">>

\* C20: no step ends the process; a file write that fails during setup is
\* answered with an error to that request, and sessionTokens and clients are
\* as before.
C20_NeverFatal ==
  [][/\ running'
     /\ last'.ep = "writeFailed"
          => last'.status = 500 /\ sessionTokens' = sessionTokens /\ clients' = clients]_vars

\* C27: every 206 response of the streamer names a range start-end of the
\* file of N bytes with 0 <= start <= end < N, has the Content-Length
\* end - start + 1, which is at least 1, and carries that many bytes; and a
\* range header whose start is greater than its end is never answered 206.
C27_WellFormed206 ==
  LET N == IF IsFile(disk, last.resolvedPath) THEN Len(disk[last.resolvedPath].data) ELSE 0
      Texts == 0..(MaxSize + 1)
  IN last.ep = "stream"
       => /\ last.status = 206
               => \E start \in Texts, end \in Texts :
                    /\ 0 <= start /\ start <= end /\ end < N
                    /\ last.contentRange = "bytes " \o NumberToString(start) \o "-"
                                             \o NumberToString(end) \o "/" \o NumberToString(N)
                    /\ last.contentLength = NumberToString(end - start + 1)
                    /\ end - start + 1 >= 1
                    /\ Len(last.bytes) = end - start + 1
          /\ \A start \in Texts, end \in Texts :
               (start > end /\ last.range = "bytes=" \o NumberToString(start) \o "-"
                                               \o NumberToString(end))
                 => last.status # 206

\* The range 2-1 of a file of 3 bytes was asked for: both numbers pass the
\* validation, and the response is the 500 of the error createReadStream
\* throws.
C27_WitnessStartAfterEnd ==
  /\ last.ep = "stream"
  /\ last.range = "bytes=2-1"
  /\ IsFile(disk, last.resolvedPath)
  /\ Len(disk[last.resolvedPath].data) = 3
  /\ last.status = 500

\* C28: whenever sessionTokens is not empty, a credential record is
\* configured; a step that adds a token ends with a record configured; and no
\* step of the running process takes a configured record away.
C28_SessionsNeedRecord ==
  [][/\ sessionTokens' # {} => authConfig' # Null
     /\ sessionTokens' \ sessionTokens # {} => authConfig' # Null
     /\ (authConfig # Null /\ running') => authConfig' # Null]_vars

\* A setup on a server that had no record has just issued the first token.
C28_WitnessFirstToken ==
  /\ last.ep = "setup"
  /\ last.status = 200
  /\ ~last.configured
  /\ sessionTokens # {}
  /\ authConfig # Null

\* C22: what has been written to a connection is nothing, or 'connected'
\* first and then only 'reload' messages; a connection enters clients in the
\* step that writes 'connected' to it, leaves it in the step of its close
\* event, and clients changes in no other step of the running process, so
\* that clients is the set of the connections that have connected and have
\* not closed; a closed connection never connects again; and a step writes
\* only to connections that are in clients after it, never to a removed one.
C22_Lifecycle ==
  [][/\ \A c \in Connections :
          /\ wire'[c] # <<>> => wire'[c][1] = "data: connected\n\n"
          /\ \A i \in 2..Len(wire'[c]) : wire'[c][i] = "data: reload\n\n"
          /\ c \in clients' => wire'[c] # <<>>
          /\ wire'[c] # wire[c] => c \in clients'
          /\ (c \in clients' /\ c \notin clients)
               => last'.ep = "events" /\ last'.conn = c /\ wire[c] = <<>>
     /\ last'.ep = "events"
          => /\ clients' = clients \cup {last'.conn}
             /\ wire'[last'.conn] = <<"data: connected\n\n">>
     /\ last'.ep = "close"
          => /\ last'.conn \in clients
             /\ clients' = clients \ {last'.conn}
             /\ wire' = wire
     /\ (running' /\ last'.ep \notin {"events", "close"}) => clients' = clients]_vars

\* Connection 1 got 'connected' and one 'reload' and has just closed, while
\* connection 2 is still a client.
C22_WitnessClosed ==
  /\ last.ep = "close"
  /\ last.conn = 1
  /\ clients = {2}
  /\ wire[1] = <<"data: connected\n\n", "data: reload\n\n">>

\* C23: a request to rename a project, sent by an authenticated local client
\* with names that resolve inside the music directory, is answered 400 when
\* the sanitized new name is empty; else 404 when the current path does not
\* exist; else 409 when the target exists, the project's own name included;
\* an answer other than 200 leaves everything below the music directory as it
\* was; and after an answer of 200 the target is a directory that holds what
\* the current one held, the current path is gone, and every other entry of
\* the music directory is as it was, with everything below it.
C23_RenameProject ==
  [][(last'.ep = "renameProject" /\ last'.local /\ last'.valid)
       => LET nextName == toSafeName(StringOrEmpty(last'.name))
              currentPath == resolve(<<MUSIC_DIR, last'.params.name>>)
              nextPath == resolve(<<MUSIC_DIR, nextName>>)
              Tree(d, p) == {q \in DOMAIN d : q = p \/ StartsWith(q, p \o sep)}
              Rebase(q) == nextPath \o SubSeq(q, Len(currentPath) + 1, Len(q))
              Inside(p) == StartsWith(p, MUSIC_DIR \o sep)
          IN (Inside(currentPath) /\ (nextName = "" \/ Inside(nextPath)))
               => /\ nextName = "" => last'.status = 400
                  /\ (nextName # "" /\ currentPath \notin DOMAIN disk) => last'.status = 404
                  /\ (nextName # "" /\ currentPath \in DOMAIN disk /\ nextPath \in DOMAIN disk)
                       => last'.status = 409
                  /\ last'.status # 200
                       => \A q \in Below(disk, MUSIC_DIR) \cup Below(disk', MUSIC_DIR) :
                            q \in DOMAIN disk /\ q \in DOMAIN disk' /\ disk'[q] = disk[q]
                  /\ last'.status = 200
                       => /\ IsDir(disk', nextPath)
                          /\ \A q \in Tree(disk, currentPath) :
                                Rebase(q) \in DOMAIN disk' /\ disk'[Rebase(q)] = disk[q]
                          /\ Tree(disk', currentPath) = {}
                          /\ \A t \in Entries(disk, MUSIC_DIR) \ {currentPath} :
                                \A q \in Tree(disk, t) \cup Tree(disk', t) :
                                  q \in DOMAIN disk /\ q \in DOMAIN disk' /\ disk'[q] = disk[q]]_vars

\* C24: an upload sent by an authenticated local client with a file whose
\* original name has another extension than .wav, in any letter case, is
\* answered 400 and changes nothing, the project directory is not created;
\* an upload of a .wav file to a project path inside the music directory that
\* is a directory or does not exist is answered 201, and then the file is
\* a regular file with the uploaded bytes directly inside the project
\* directory, its name is made of letters, digits, '.', '_' and '-' only,
\* ends in .wav in some letter case, and is in the list getDemos returns for
\* the project; and an upload changes nothing else.
C24_UploadDemo ==
  [][(last'.ep = "uploadDemo" /\ last'.local /\ last'.valid /\ last'.file # NoFilePart)
       => LET projectPath == resolve(<<MUSIC_DIR, last'.params.name>>)
              Listed(q, demos) == \E i \in DOMAIN demos : demos[i].name = basename(q)
              IsDemo(q) ==
                /\ IsFile(disk', q)
                /\ disk'[q].data = last'.file.data
                /\ dirname(q) = projectPath
                /\ \A i \in 1..Len(basename(q)) :
                     Includes(UpperLetters \o LowerLetters \o Digits \o "._-", Char(basename(q), i))
                /\ EndsWith(ToLowerCase(basename(q)), ".wav")
                /\ Listed(q, getDemos(disk', last'.params.name).demos)
              Written == {q \in DOMAIN disk' : q \notin DOMAIN disk \/ disk'[q] # disk[q]}
          IN IF ToLowerCase(extname(last'.file.originalname)) # ".wav"
               THEN last'.status = 400 /\ disk' = disk
             ELSE /\ (/\ StartsWith(projectPath, MUSIC_DIR \o sep)
                      /\ projectPath \notin DOMAIN disk \/ IsDir(disk, projectPath))
                       => /\ last'.status = 201
                          /\ IsDir(disk', projectPath)
                          /\ \E q \in DOMAIN disk' : IsDemo(q)
                  /\ \A q \in Written : q = projectPath \/ (last'.status = 201 /\ IsDemo(q))
                  /\ DOMAIN disk \subseteq DOMAIN disk']_vars

\* A file sent as '../../music2/t.WAV' was uploaded to project A, which did
\* not exist: it is A/t.WAV.
C24_WitnessNewProject ==
  /\ last.ep = "uploadDemo"
  /\ last.status = 201
  /\ last.params.name = "A"
  /\ last.file.originalname = "../../music2/t.WAV"
  /\ IsFile(disk, "/app/music/A/t.WAV")
  /\ Entries(disk, "/app/music/A") = {"/app/music/A/t.WAV"}
  /\ ~existsSync(disk, "/app/music/B")

\* C25: a request to rename a demo of a project path inside the music
\* directory, sent by an authenticated local client, is answered 400 when the
\* new name is empty after sanitization (its base name is empty); else 400
\* when the current path is not below the project directory; else 404 when
\* the current path does not exist; it is answered 400 for no other reason,
\* so the target never leaves the project; an answer other than 200 changes
\* nothing; and after an answer of 200 what was at the current path is
\* directly inside the project directory under a name that ends in .wav in
\* some letter case, is made of letters, digits, '.', '_' and '-' only and is
\* the sanitized new name or that name followed by .wav, and the current
\* path, when it is another one, is gone.
C25_RenameDemo ==
  [][(last'.ep = "renameDemo" /\ last'.local /\ last'.valid)
       => LET projectPath == resolve(<<MUSIC_DIR, last'.params.name>>)
              currentPath == resolve(<<projectPath, last'.params.file>>)
              base == basename(StringOrEmpty(last'.name))
              Within(p) == StartsWith(p, projectPath \o sep)
              IsTarget(q) ==
                /\ q \in DOMAIN disk'
                /\ disk'[q] = disk[currentPath]
                /\ dirname(q) = projectPath
                /\ EndsWith(ToLowerCase(basename(q)), ".wav")
                /\ \A i \in 1..Len(basename(q)) :
                     Includes(UpperLetters \o LowerLetters \o Digits \o "._-", Char(basename(q), i))
                /\ Len(basename(q)) \in {Len(base), Len(base) + 4}
                /\ \A i \in 1..Len(base) : Char(basename(q), i) \in {Char(base, i), "_"}
                /\ q # currentPath => currentPath \notin DOMAIN disk'
                /\ \A o \in DOMAIN disk \ {q, currentPath} : o \in DOMAIN disk' /\ disk'[o] = disk[o]
          IN StartsWith(projectPath, MUSIC_DIR \o sep)
               => /\ last'.status = 400 <=> (base = "" \/ ~Within(currentPath))
                  /\ (base # "" /\ Within(currentPath) /\ currentPath \notin DOMAIN disk)
                       => last'.status = 404
                  /\ last'.status # 200 => disk' = disk
                  /\ last'.status = 200
                       => /\ currentPath \in DOMAIN disk
                          /\ \E q \in DOMAIN disk' : IsTarget(q)]_vars

\* Demo x.wav of project A was renamed to 'n': it is A/n.wav, and A/x.wav is
\* gone.
C25_WitnessSuffixAdded ==
  /\ last.ep = "renameDemo"
  /\ last.status = 200
  /\ last.params = [name |-> "A", file |-> "x.wav"]
  /\ last.name = Str("n")
  /\ IsFile(disk, "/app/music/A/n.wav")
  /\ ~existsSync(disk, "/app/music/A/x.wav")

\* C21: the step in which a request to delete a project removes the project
\* directory removes no .wav file: every regular file with the suffix .wav
\* that is below the music directory before the step, an upload answered 201
\* has put it there or not, is still there after it.
C21_DeleteKeepsDemos ==
  [][last'.ep = "deleteProject"
       => \A q \in Below(disk, MUSIC_DIR) : IsWav(disk, q) => IsWav(disk', q)]_vars

\* C26: a request to rename a demo that is answered 200 leaves as many .wav
\* files in the project directory as there were, and every .wav file of the
\* project other than the renamed one as it was.
C26_RenameKeepsOthers ==
  [][(last'.ep = "renameDemo" /\ last'.status = 200)
       => LET projectPath == resolve(<<MUSIC_DIR, last'.params.name>>)
              currentPath == resolve(<<projectPath, last'.params.file>>)
              Demos(d) == {q \in Entries(d, projectPath) : IsWav(d, q)}
          IN /\ Cardinality(Demos(disk')) = Cardinality(Demos(disk))
             /\ \A q \in Demos(disk) \ {currentPath} :
                   q \in DOMAIN disk' /\ disk'[q] = disk[q]]_vars

\* C29: when a mutation has been answered with success and has changed the
\* tree, every connection that is in clients then either leaves clients or
\* gets one more message, a 'reload', in the end.
C29_ReloadArrives ==
  \A c \in Connections, n \in 1..(MaxEvents + 1) :
    (/\ last.ep \in MutatingEndpoints
     /\ last.status \in {200, 201}
     /\ last.changed
     /\ c \in clients
     /\ Len(wire[c]) = n)
      ~> (c \notin clients \/ (Len(wire[c]) > n /\ wire[c][n + 1] = "data: reload\n\n"))

\* The watcher has reported the upload of t.wav to connection 1, which was
\* connected before the project was created and has got two messages since.
C29_WitnessReloaded ==
  /\ last.ep = "watcher"
  /\ 1 \in clients
  /\ Len(wire[1]) = 3
  /\ wire[1][3] = "data: reload\n\n"
  /\ IsFile(disk, "/app/music/P/t.wav")
  /\ Watchable(disk) = watched

====
